---- MODULE Spec2Model ----
(***************************************************************************)
(* A model of the quick-patricia-trie engine: the byte Arena, the two-tier *)
(* node storage Db (hash map + memory vector + root), the Trie operations  *)
(* get / insert / commit / defragment and the DFS iterator.                *)
(*                                                                         *)
(* Byte strings are sequences of integers 0..255.  The 32-byte digest      *)
(* keccak(x) is the injective term  <<-1>> \o Nest(x) \o <<-2>>  (an       *)
(* opening mark, the preimage moved out of the byte range, a closing       *)
(* mark); ByteLen counts such a group as 32 bytes, so two digests are      *)
(* equal exactly when their preimages are.                                 *)
(***************************************************************************)
EXTENDS Integers, Sequences, FiniteSets, TLC

VARIABLES
    arena,     \* Trie.arena: the items of the Arena, item h at arena[h]
    db,        \* Trie.db: [hash, memory, root, empty]
    kv,        \* history: the key -> value map of all inserts made so far
    last,      \* history: the last operation, its arguments and its result
    nops,      \* number of mutating operations performed
    hist,      \* history: how many inserts, commits and defragments were made
    iter,      \* the live DFSIter, if any, and what it has yielded so far
    panicked   \* the process aborted on a Rust panic

vars == <<arena, db, kv, last, nops, hist, iter, panicked>>

(***************************************************************************)
(* Bounds and input domains                                                *)
(***************************************************************************)
MaxOps == 4
MaxNext == 6
DeepOps == 2

SmallVal == <<1>>
BigVal == [i \in 1..32 |-> 48]
Vals == {SmallVal, BigVal}

Keys ==
    { <<>>, <<0>>, <<0, 0>>, <<0, 1>>, <<0, 16>>, <<1>>, <<32>> }

(***************************************************************************)
(* Small helpers                                                           *)
(***************************************************************************)
Min(S) == CHOOSE x \in S : \A y \in S : x <= y

SomeRes(v) == [some |-> TRUE, v |-> v]
NoneRes == [some |-> FALSE, v |-> <<>>]

(***************************************************************************)
(* Index and Node                                                          *)
(***************************************************************************)
Hash(i) == [t |-> "Hash", i |-> i]
Memory(i) == [t |-> "Memory", i |-> i]
None == [t |-> "None", i |-> 0]
NoVal == -1

EmptyNode == [kind |-> "Empty"]
NoNode == [kind |-> "None"]
LeafNode(n, v) == [kind |-> "Leaf", nibble |-> n, value |-> v]
ExtNode(n, k) == [kind |-> "Extension", nibble |-> n, key |-> k]
BranchNode(ks, v) == [kind |-> "Branch", keys |-> ks, value |-> v]
BranchDefault == BranchNode([u \in 0..15 |-> None], NoVal)

(***************************************************************************)
(* Arena                                                                   *)
(***************************************************************************)
ArenaNew == <<>>
ArenaPush(a, bytes) == [arena |-> Append(a, bytes), idx |-> Len(a) + 1]
ArenaLen(a) == Len(a)
ValidHandle(a, h) == h \in 1..Len(a)

(***************************************************************************)
(* Digest and byte length                                                  *)
(***************************************************************************)
\* an element moved one level down into a digest's preimage
Nest(e) == IF e >= 0 THEN e + 1000 ELSE e - 2

Keccak(bytes) == <<-1>> \o [j \in 1..Len(bytes) |-> Nest(bytes[j])] \o <<-2>>
KECCAK_NULL_RLP == Keccak(<<128>>)
H256Len == 32

\* the length in bytes: the plain bytes, and 32 for every digest
ByteLen(s) ==
    Cardinality({j \in 1..Len(s) : s[j] >= 0 /\ s[j] < 256})
    + H256Len * Cardinality({j \in 1..Len(s) : s[j] = -1})

(***************************************************************************)
(* Nibble: a half-byte view {data, start, end} into an arena item          *)
(***************************************************************************)
Nib(d, s, e) == [data |-> d, start |-> s, end |-> e]
NibDefault == Nib(0, 0, 0)
NibLen(n) == n.end - n.start

HalfByte(bytes, i) ==
    IF i % 2 = 0 THEN bytes[(i \div 2) + 1] \div 16
                 ELSE bytes[(i \div 2) + 1] % 16

\* the half-bytes of the view, in order (nothing is read for an empty view)
NibIter(n, A) == [j \in 1..NibLen(n) |-> HalfByte(A[n.data], n.start + j - 1)]

PopFront(n, A) ==
    IF NibLen(n) = 0
    THEN [some |-> FALSE, u |-> 0, n |-> n]
    ELSE [some |-> TRUE, u |-> HalfByte(A[n.data], n.start),
          n |-> Nib(n.data, n.start + 1, n.end)]

SplitAt(n, k) ==
    IF k >= NibLen(n)
    THEN [left |-> n, some |-> FALSE, right |-> NibDefault]
    ELSE [left |-> Nib(n.data, n.start, n.start + k), some |-> TRUE,
          right |-> Nib(n.data, n.start + k, n.end)]

NibEq(a, b, A, B) == NibIter(a, A) = NibIter(b, B)

\* copy the viewed item into the trie's arena, keeping the offsets
NibCopy(n, A, a) ==
    [arena |-> Append(a, A[n.data]), nibble |-> Nib(Len(a) + 1, n.start, n.end)]

\* the caller's scratch arena: item 0 is the key, item 1 the value
ArenaSlice(key, value) == [i \in {0, 1} |-> IF i = 0 THEN key ELSE value]

\* 0-based position of the first difference of the zipped sequences, -1 if none
Position(a, b) ==
    LET m == IF Len(a) < Len(b) THEN Len(a) ELSE Len(b)
        D == {j \in 1..m : a[j] # b[j]}
    IN IF D = {} THEN -1 ELSE Min(D) - 1

(***************************************************************************)
(* Db: the two-tier node storage                                           *)
(***************************************************************************)
MapPut(f, k, v) == [x \in (DOMAIN f) \cup {k} |-> IF x = k THEN v ELSE f[x]]
MapDel(f, k) == [x \in (DOMAIN f) \ {k} |-> f[x]]

\* a Db whose first arena item is the empty encoding itself, not its digest
DbNewPlain(a) ==
    LET p == ArenaPush(a, <<128>>)
    IN [arena |-> p.arena,
        db |-> [hash |-> MapPut(<<>>, p.idx, EmptyNode), memory |-> <<>>,
                root |-> Hash(p.idx), empty |-> p.idx]]

DbNew(a) ==
    LET p == ArenaPush(a, KECCAK_NULL_RLP)
    IN [arena |-> p.arena,
        db |-> [hash |-> MapPut(<<>>, p.idx, EmptyNode), memory |-> <<>>,
                root |-> Hash(p.idx), empty |-> p.idx]]

DbGet(d, key) ==
    IF key.t = "Hash"
    THEN IF key.i \in DOMAIN d.hash THEN d.hash[key.i] ELSE NoNode
    ELSE IF key.t = "Memory" /\ key.i < Len(d.memory)
         THEN d.memory[key.i + 1] ELSE NoNode

\* a get_mut that promotes the node but never repairs the root index
GetMutKeepsRoot(d, key) ==
    IF key.t = "Hash"
    THEN IF key.i \in DOMAIN d.hash
         THEN [found |-> TRUE, node |-> d.hash[key.i], key |-> Memory(Len(d.memory)),
               db |-> [d EXCEPT !.hash = MapDel(d.hash, key.i),
                                !.memory = Append(d.memory, d.hash[key.i])]]
         ELSE [found |-> FALSE, node |-> NoNode, key |-> key, db |-> d]
    ELSE IF key.i < Len(d.memory)
         THEN [found |-> TRUE, node |-> d.memory[key.i + 1], key |-> key, db |-> d]
         ELSE [found |-> FALSE, node |-> NoNode, key |-> key, db |-> d]

\* a get_mut that appends an Empty node to memory when it finds nothing
GetMutGrowsOnMiss(d, key) ==
    IF key.t = "Hash"
    THEN IF key.i \in DOMAIN d.hash
         THEN LET len == Len(d.memory)
              IN [found |-> TRUE, node |-> d.hash[key.i], key |-> Memory(len),
                  db |-> [d EXCEPT !.hash = MapDel(d.hash, key.i),
                                   !.memory = Append(d.memory, d.hash[key.i]),
                                   !.root = IF key = d.root THEN Memory(len) ELSE d.root]]
         ELSE [found |-> FALSE, node |-> NoNode, key |-> Memory(Len(d.memory)),
               db |-> [d EXCEPT !.memory = Append(d.memory, EmptyNode)]]
    ELSE IF key.i < Len(d.memory)
         THEN [found |-> TRUE, node |-> d.memory[key.i + 1], key |-> key, db |-> d]
         ELSE [found |-> FALSE, node |-> NoNode, key |-> key, db |-> d]

\* get_mut: a Hash-tier node is moved to the end of the memory vector and the
\* caller's index (returned as key) is rewritten; root follows if it was the root
GetMut(d, key) ==
    IF key.t = "Hash"
    THEN IF key.i \in DOMAIN d.hash
         THEN LET len == Len(d.memory)
              IN [found |-> TRUE, node |-> d.hash[key.i], key |-> Memory(len),
                  db |-> [d EXCEPT !.hash = MapDel(d.hash, key.i),
                                   !.memory = Append(d.memory, d.hash[key.i]),
                                   !.root = IF key = d.root THEN Memory(len) ELSE d.root]]
         ELSE [found |-> FALSE, node |-> NoNode, key |-> key, db |-> d]
    ELSE IF key.i < Len(d.memory)
         THEN [found |-> TRUE, node |-> d.memory[key.i + 1], key |-> key, db |-> d]
         ELSE [found |-> FALSE, node |-> NoNode, key |-> key, db |-> d]

InsertNode(d, key, node) ==
    IF key.t = "Hash"
    THEN [d EXCEPT !.hash = MapPut(d.hash, key.i, node)]
    ELSE IF key.i < Len(d.memory)
         THEN [d EXCEPT !.memory[key.i + 1] = node]
         ELSE d

PushNode(d, node) ==
    [db |-> [d EXCEPT !.memory = Append(d.memory, node)],
     index |-> Memory(Len(d.memory))]

DbRemove(d, key) == InsertNode(d, key, EmptyNode)

\* Db::root: the bytes at the Hash-tier root
DbRoot(a, d) == IF d.root.t = "Hash" THEN SomeRes(a[d.root.i]) ELSE NoneRes

\* indexing the arena with a handle it does not hold aborts
DbRootPanics(a, d) == d.root.t = "Hash" /\ ~ValidHandle(a, d.root.i)

(***************************************************************************)
(* Trie::get                                                               *)
(***************************************************************************)
RECURSIVE GetNibble(_, _, _, _, _)
GetNibble(a, d, key, path, A) ==
    LET node == DbGet(d, key)
    IN CASE node.kind = "Branch" ->
              LET p == PopFront(path, A)
              IN IF p.some
                 THEN IF node.keys[p.u] = None THEN NoneRes
                      ELSE GetNibble(a, d, node.keys[p.u], p.n, A)
                 ELSE IF node.value = NoVal THEN NoneRes
                      ELSE SomeRes(a[node.value])
         [] node.kind = "Extension" ->
              LET s == SplitAt(path, NibLen(node.nibble))
              IN IF NibEq(node.nibble, s.left, a, A)
                 THEN GetNibble(a, d, node.key, s.right, A)
                 ELSE NoneRes
         [] node.kind = "Leaf" ->
              IF NibEq(node.nibble, path, a, A)
              THEN SomeRes(a[node.value])
              ELSE NoneRes
         [] OTHER -> NoneRes

TrieGet(a, d, key) ==
    GetNibble(a, d, d.root, Nib(0, 0, Len(key) * 2), ArenaSlice(key, <<>>))

Get(key) == TrieGet(arena, db, key)

(***************************************************************************)
(* Trie::insert                                                            *)
(***************************************************************************)
InsRes(a, d, ret, panic) == [arena |-> a, db |-> d, ret |-> ret, panic |-> panic]

\* the new key's side of a split: a Leaf in the slot of the first half-byte
\* past the offset, or the Branch's own value when nothing is left
SplitNewSide(a, d, branch, value, path, offset, A) ==
    LET s == SplitAt(path, offset)
        p == IF s.some THEN PopFront(s.right, A) ELSE [some |-> FALSE, u |-> 0, n |-> path]
    IN IF p.some
       THEN LET c == NibCopy(p.n, A, a)
                n == PushNode(d, LeafNode(c.nibble, value))
            IN [arena |-> c.arena, db |-> n.db,
                branch |-> [branch EXCEPT !.keys[p.u] = n.index]]
       ELSE [arena |-> a, db |-> d, branch |-> [branch EXCEPT !.value = value]]

\* a split that hangs the first child of the new Branch under the Extension
\* in place of the Branch
SplitFinishSkipsBranch(a, d, key, branch, left, offset) ==
    IF offset > 0 /\ \E u \in 0..15 : branch.keys[u] # None
    THEN LET u == Min({w \in 0..15 : branch.keys[w] # None})
         IN InsRes(a, InsertNode(d, key, ExtNode(left, branch.keys[u])), NoneRes, FALSE)
    ELSE InsRes(a, InsertNode(d, key, branch), NoneRes, FALSE)

\* the tail of a split: the Branch replaces the node, under an Extension
\* holding the common prefix when the offset is positive
SplitFinish(a, d, key, branch, left, offset) ==
    IF offset > 0
    THEN LET b == PushNode(d, branch)
         IN InsRes(a, InsertNode(b.db, key, ExtNode(left, b.index)), NoneRes, FALSE)
    ELSE InsRes(a, InsertNode(d, key, branch), NoneRes, FALSE)

ActionBranchKey(a, d, key, u, leaf) ==
    LET n == PushNode(d, leaf)
        g == GetMut(n.db, key)
    IN IF ~g.found THEN InsRes(a, g.db, NoneRes, FALSE)
       ELSE IF g.node.kind = "Branch"
            THEN InsRes(a, InsertNode(g.db, g.key, [g.node EXCEPT !.keys[u] = n.index]),
                        NoneRes, FALSE)
            ELSE InsRes(a, g.db, NoneRes, FALSE)

\* an Extension split that keeps the remainder as an Extension even when it
\* is empty
ActionExtensionKeepsEmpty(a, d, key, ext, offset, value, path, A) ==
    LET d1 == DbRemove(d, key)
        new == SplitNewSide(a, d1, BranchDefault, value, path, offset, A)
        es == SplitAt(ext.nibble, offset)
        ep == IF es.some THEN PopFront(es.right, new.arena)
                         ELSE [some |-> FALSE, u |-> 0, n |-> ext.nibble]
    IN IF ep.some
       THEN LET old == PushNode(new.db, ExtNode(ep.n, ext.key))
                branch == [new.branch EXCEPT !.keys[ep.u] = old.index]
            IN SplitFinish(new.arena, old.db, key, branch, es.left, offset)
       ELSE InsRes(new.arena, new.db, NoneRes, TRUE)

ActionExtension(a, d, key, ext, offset, value, path, A) ==
    LET d1 == DbRemove(d, key)
        new == SplitNewSide(a, d1, BranchDefault, value, path, offset, A)
        es == SplitAt(ext.nibble, offset)
        ep == IF es.some THEN PopFront(es.right, new.arena)
                         ELSE [some |-> FALSE, u |-> 0, n |-> ext.nibble]
    IN IF ep.some
       THEN LET old == IF NibLen(ep.n) = 0
                       THEN [db |-> new.db, index |-> ext.key]
                       ELSE PushNode(new.db, ExtNode(ep.n, ext.key))
                branch == [new.branch EXCEPT !.keys[ep.u] = old.index]
            IN SplitFinish(new.arena, old.db, key, branch, es.left, offset)
       ELSE InsRes(new.arena, new.db, NoneRes, TRUE)   \* "extension nibble too short"

\* a Leaf split that forgets the old Leaf when nothing of its nibble is left
ActionLeafDropsOld(a, d, key, leaf, offset, value, path, A) ==
    LET d1 == DbRemove(d, key)
        new == SplitNewSide(a, d1, BranchDefault, value, path, offset, A)
        ls == SplitAt(leaf.nibble, offset)
        lp == IF ls.some THEN PopFront(ls.right, new.arena)
                         ELSE [some |-> FALSE, u |-> 0, n |-> leaf.nibble]
    IN IF lp.some
       THEN LET old == PushNode(new.db, LeafNode(lp.n, leaf.value))
                branch == [new.branch EXCEPT !.keys[lp.u] = old.index]
            IN SplitFinish(new.arena, old.db, key, branch, ls.left, offset)
       ELSE SplitFinish(new.arena, new.db, key, new.branch, ls.left, offset)

ActionLeaf(a, d, key, leaf, offset, value, path, A) ==
    LET d1 == DbRemove(d, key)
        new == SplitNewSide(a, d1, BranchDefault, value, path, offset, A)
        ls == SplitAt(leaf.nibble, offset)
        lp == IF ls.some THEN PopFront(ls.right, new.arena)
                         ELSE [some |-> FALSE, u |-> 0, n |-> leaf.nibble]
    IN IF lp.some
       THEN LET old == PushNode(new.db, LeafNode(lp.n, leaf.value))
                branch == [new.branch EXCEPT !.keys[lp.u] = old.index]
            IN SplitFinish(new.arena, old.db, key, branch, ls.left, offset)
       ELSE SplitFinish(new.arena, new.db, key,
                        [new.branch EXCEPT !.value = leaf.value], ls.left, offset)

ActionRoot(a, d, key, value, path, A) ==
    LET c == NibCopy(path, A, a)
    IN InsRes(c.arena, InsertNode(d, key, LeafNode(c.nibble, value)), NoneRes, FALSE)

ExecuteAction(a, d, action, key, value, path, A) ==
    CASE action.tag = "BranchKey" -> ActionBranchKey(a, d, key, action.u, action.leaf)
      [] action.tag = "Extension" ->
             ActionExtension(a, d, key, action.ext, action.offset, value, path, A)
      [] action.tag = "Leaf" ->
             ActionLeaf(a, d, key, action.leaf, action.offset, value, path, A)
      [] OTHER -> ActionRoot(a, d, key, value, path, A)

\* the Branch arm of the walk
WalkBranch(a, d, key, node, value, path, A) ==
    LET p == PopFront(path, A)
    IN IF p.some
       THEN IF node.keys[p.u] # None
            THEN [go |-> TRUE, key |-> node.keys[p.u], path |-> p.n]
            ELSE LET c == NibCopy(p.n, A, a)
                 IN [go |-> FALSE,
                     res |-> ExecuteAction(c.arena, d,
                                [tag |-> "BranchKey", u |-> p.u,
                                 leaf |-> LeafNode(c.nibble, value)],
                                key, value, path, A)]
       ELSE [go |-> FALSE,
             res |-> InsRes(a, InsertNode(d, key, [node EXCEPT !.value = value]),
                            IF node.value = NoVal THEN NoneRes ELSE SomeRes(a[node.value]),
                            FALSE)]

\* the Extension arm of the walk
WalkExtension(a, d, key, node, value, path, A) ==
    LET s == SplitAt(path, NibLen(node.nibble))
        pos == Position(NibIter(node.nibble, a), NibIter(s.left, A))
    IN IF pos >= 0
       THEN [go |-> FALSE,
             res |-> ExecuteAction(a, d, [tag |-> "Extension", ext |-> node, offset |-> pos],
                                   key, value, path, A)]
       ELSE [go |-> TRUE, key |-> node.key, path |-> s.right]

\* the Leaf arm of the walk
WalkLeaf(a, d, key, node, value, path, A) ==
    LET s == SplitAt(path, NibLen(node.nibble))
        pos == Position(NibIter(node.nibble, a), NibIter(s.left, A))
        split(off) == ExecuteAction(a, d, [tag |-> "Leaf", leaf |-> node, offset |-> off],
                                    key, value, path, A)
    IN IF pos >= 0 THEN split(pos)
       ELSE IF s.some THEN split(NibLen(node.nibble))
       ELSE IF NibLen(path) = NibLen(node.nibble)
            THEN InsRes(a, InsertNode(d, key, [node EXCEPT !.value = value]),
                        SomeRes(a[node.value]), FALSE)
            ELSE split(NibLen(path))

RECURSIVE InsertWalk(_, _, _, _, _, _)
InsertWalk(a, d, key, value, path, A) ==
    LET g == GetMut(d, key)
    IN IF ~g.found
       THEN ExecuteAction(a, g.db, [tag |-> "Root"], g.key, value, path, A)
       ELSE CASE g.node.kind = "Branch" ->
                   LET w == WalkBranch(a, g.db, g.key, g.node, value, path, A)
                   IN IF w.go THEN InsertWalk(a, g.db, w.key, value, w.path, A) ELSE w.res
              [] g.node.kind = "Extension" ->
                   LET w == WalkExtension(a, g.db, g.key, g.node, value, path, A)
                   IN IF w.go THEN InsertWalk(a, g.db, w.key, value, w.path, A) ELSE w.res
              [] g.node.kind = "Leaf" ->
                   WalkLeaf(a, g.db, g.key, g.node, value, path, A)
              [] OTHER ->
                   ExecuteAction(a, g.db, [tag |-> "Root"], g.key, value, path, A)

InsertLeaf(a, d, leaf, A) ==
    LET v == ArenaPush(a, A[leaf.value])
    IN InsertWalk(v.arena, d, d.root, v.idx, leaf.nibble, A)

TrieInsert(a, d, key, value) ==
    InsertLeaf(a, d, LeafNode(Nib(0, 0, Len(key) * 2), 1), ArenaSlice(key, value))

(***************************************************************************)
(* Canonical encoding (RLP stream items and the hex-prefix path)           *)
(***************************************************************************)
RlpEmpty == <<128>>

\* RlpStream::append of a byte string
RlpBytes(b) ==
    LET n == ByteLen(b)
    IN IF n = 1 /\ b[1] >= 0 /\ b[1] < 128 THEN b
       ELSE IF n < 56 THEN <<128 + n>> \o b
       ELSE <<184, n>> \o b

\* the list header put before a payload
RlpList(payload) ==
    LET n == ByteLen(payload)
    IN IF n < 56 THEN <<192 + n>> \o payload
       ELSE IF n < 256 THEN <<248, n>> \o payload
       ELSE <<249, n \div 256, n % 256>> \o payload

\* two half-bytes per byte
Pack(ns) == [j \in 1..(Len(ns) \div 2) |-> ns[2 * j - 1] * 16 + ns[2 * j]]

\* hex-prefix: a flag half-byte (2 = leaf, +1 = odd length), then the path
HexPrefix(ns, isLeaf) ==
    LET flag == IF isLeaf THEN 2 ELSE 0
    IN IF Len(ns) % 2 = 1
       THEN <<(flag + 1) * 16 + ns[1]>> \o Pack(SubSeq(ns, 2, Len(ns)))
       ELSE <<flag * 16>> \o Pack(ns)

NibEncoded(n, isLeaf, a) == HexPrefix(NibIter(n, a), isLeaf)

\* a child reference inside its parent: the raw encoding when shorter than a
\* digest, the digest as a byte string otherwise
ChildItem(data) == IF ByteLen(data) < H256Len THEN data ELSE RlpBytes(data)

LeafEncoded(leaf, a) ==
    ArenaPush(a, RlpList(RlpBytes(NibEncoded(leaf.nibble, TRUE, a)) \o RlpBytes(a[leaf.value])))

BranchSlot(branch, a, u) ==
    IF branch.keys[u].t = "Hash" THEN ChildItem(a[branch.keys[u].i]) ELSE RlpEmpty

BranchSlots(branch, a) ==
    LET S(u) == BranchSlot(branch, a, u)
    IN S(0) \o S(1) \o S(2) \o S(3) \o S(4) \o S(5) \o S(6) \o S(7)
       \o S(8) \o S(9) \o S(10) \o S(11) \o S(12) \o S(13) \o S(14) \o S(15)

BranchEncoded(branch, a) ==
    ArenaPush(a, RlpList(BranchSlots(branch, a)
                         \o (IF branch.value = NoVal THEN RlpEmpty
                             ELSE RlpBytes(a[branch.value]))))

ExtEncodedOrEmpty(ext, a, empty) ==
    IF ext.key.t = "Hash"
    THEN ArenaPush(a, RlpList(RlpBytes(NibEncoded(ext.nibble, FALSE, a))
                              \o ChildItem(a[ext.key.i])))
    ELSE [arena |-> a, idx |-> empty]

(***************************************************************************)
(* Db::commit                                                              *)
(***************************************************************************)
RECURSIVE CommitNode(_, _, _)
RECURSIVE CommitKeys(_, _, _, _)

\* the occupied slots from u on are committed in ascending order
CommitKeys(a, d, keys, u) ==
    LET occ == {x \in u..15 : keys[x] # None}
    IN IF occ = {} THEN [arena |-> a, db |-> d, keys |-> keys]
       ELSE LET x == Min(occ)
                r == CommitNode(a, d, keys[x])
            IN CommitKeys(r.arena, r.db, [keys EXCEPT ![x] = r.index], x + 1)

\* a pre-order commit: the node is encoded before its children are committed
CommitEncodeEarly(a, d, node) ==
    CASE node.kind = "Leaf" ->
            LET e == LeafEncoded(node, a)
            IN [arena |-> e.arena, db |-> d, node |-> node, enc |-> e.idx]
      [] node.kind = "Branch" ->
            LET e == BranchEncoded(node, a)
                c == CommitKeys(e.arena, d, node.keys, 0)
            IN [arena |-> c.arena, db |-> c.db,
                node |-> [node EXCEPT !.keys = c.keys], enc |-> e.idx]
      [] node.kind = "Extension" ->
            LET e == ExtEncodedOrEmpty(node, a, d.empty)
                c == CommitNode(e.arena, d, node.key)
            IN [arena |-> c.arena, db |-> c.db,
                node |-> [node EXCEPT !.key = c.index], enc |-> e.idx]
      [] OTHER -> [arena |-> a, db |-> d, node |-> node, enc |-> d.empty]

\* the node once its children are committed, and the arena item of its encoding
CommitEncode(a, d, node) ==
    CASE node.kind = "Leaf" ->
            LET e == LeafEncoded(node, a)
            IN [arena |-> e.arena, db |-> d, node |-> node, enc |-> e.idx]
      [] node.kind = "Branch" ->
            LET c == CommitKeys(a, d, node.keys, 0)
                b == [node EXCEPT !.keys = c.keys]
                e == BranchEncoded(b, c.arena)
            IN [arena |-> e.arena, db |-> c.db, node |-> b, enc |-> e.idx]
      [] node.kind = "Extension" ->
            LET c == CommitNode(a, d, node.key)
                x == [node EXCEPT !.key = c.index]
                e == ExtEncodedOrEmpty(x, c.arena, d.empty)
            IN [arena |-> e.arena, db |-> c.db, node |-> x, enc |-> e.idx]
      [] OTHER -> [arena |-> a, db |-> d, node |-> node, enc |-> d.empty]

\* the root is always stored under its digest; another node only when its
\* encoding is at least as long as a digest
\* a store that keeps every node under the digest of its encoding
CommitStoreDigest(e, index, root) ==
    LET h == ArenaPush(e.arena, Keccak(e.arena[e.enc]))
    IN [arena |-> h.arena,
        db |-> [e.db EXCEPT !.hash = MapPut(@, h.idx, e.node)],
        index |-> Hash(h.idx)]

\* a store that treats the root like any other node
CommitStoreInline(e, index, root) ==
    LET data == e.arena[e.enc]
    IN IF ByteLen(data) >= H256Len
       THEN LET h == ArenaPush(e.arena, Keccak(data))
            IN [arena |-> h.arena,
                db |-> [e.db EXCEPT !.hash = MapPut(@, h.idx, e.node)],
                index |-> Hash(h.idx)]
       ELSE [arena |-> e.arena,
             db |-> [e.db EXCEPT !.hash = MapPut(@, e.enc, e.node)],
             index |-> Hash(e.enc)]

\* a store addressed by content: a node whose digest or short encoding the
\* arena already holds is stored under the handle of that item
CommitStoreByContent(e, index, root) ==
    LET data == e.arena[e.enc]
    IN IF index = root \/ ByteLen(data) >= H256Len
       THEN LET same == {g \in 1..Len(e.arena) : e.arena[g] = Keccak(data)}
                h == IF same = {} THEN ArenaPush(e.arena, Keccak(data))
                     ELSE [arena |-> e.arena, idx |-> Min(same)]
            IN [arena |-> h.arena,
                db |-> [e.db EXCEPT !.hash = MapPut(@, h.idx, e.node)],
                index |-> Hash(h.idx)]
       ELSE LET g == Min({x \in 1..Len(e.arena) : e.arena[x] = data})
            IN [arena |-> e.arena,
                db |-> [e.db EXCEPT !.hash = MapPut(@, g, e.node)],
                index |-> Hash(g)]

CommitStore(e, index, root) ==
    LET data == e.arena[e.enc]
    IN IF index = root \/ ByteLen(data) >= H256Len
       THEN LET h == ArenaPush(e.arena, Keccak(data))
            IN [arena |-> h.arena,
                db |-> [e.db EXCEPT !.hash = MapPut(@, h.idx, e.node)],
                index |-> Hash(h.idx)]
       ELSE [arena |-> e.arena,
             db |-> [e.db EXCEPT !.hash = MapPut(@, e.enc, e.node)],
             index |-> Hash(e.enc)]

CommitNode(a, d, index) ==
    IF index.t = "Hash" THEN [arena |-> a, db |-> d, index |-> index]
    ELSE LET node == d.memory[index.i + 1]
             d1 == [d EXCEPT !.memory[index.i + 1] = EmptyNode]
         IN CommitStore(CommitEncode(a, d1, node), index, d.root)

\* a commit that clears the memory vector but leaves the root index as it was
DbCommitKeepsRoot(a, d) ==
    IF d.root.t = "Hash" THEN [arena |-> a, db |-> d]
    ELSE LET r == CommitNode(a, d, d.root)
         IN [arena |-> r.arena, db |-> [r.db EXCEPT !.memory = <<>>]]

\* a commit without the early return, which takes the root back into memory
\* and commits it again
DbCommitEager(a, d) ==
    LET g == GetMut(d, d.root)
        r == CommitNode(a, g.db, g.db.root)
    IN [arena |-> r.arena, db |-> [r.db EXCEPT !.memory = <<>>, !.root = r.index]]

\* a commit that moves the root to the hash tier without clearing the memory
DbCommitKeepsMemory(a, d) ==
    IF d.root.t = "Hash" THEN [arena |-> a, db |-> d]
    ELSE LET r == CommitNode(a, d, d.root)
         IN [arena |-> r.arena, db |-> [r.db EXCEPT !.root = r.index]]

DbCommit(a, d) ==
    IF d.root.t = "Hash" THEN [arena |-> a, db |-> d]
    ELSE LET r == CommitNode(a, d, d.root)
         IN [arena |-> r.arena, db |-> [r.db EXCEPT !.memory = <<>>, !.root = r.index]]

TrieCommit(a, d) == DbCommit(a, d)

\* Trie::root: commit, then the bytes at the root
RootOf(c) ==
    [arena |-> c.arena, db |-> c.db, panic |-> DbRootPanics(c.arena, c.db),
     ret |-> IF DbRootPanics(c.arena, c.db) THEN NoneRes ELSE DbRoot(c.arena, c.db)]

\* a root() that reads the root without committing first
TrieRootNoCommit(a, d) == RootOf([arena |-> a, db |-> d])

TrieRoot(a, d) == RootOf(TrieCommit(a, d))

\* a teardown that leaves the trie as it is
TrieDropIdle(a, d) == [arena |-> a, db |-> d]

\* Drop for Trie
TrieDrop(a, d) == TrieCommit(a, d)

(***************************************************************************)
(* Arena::defragment and Db::defragment                                    *)
(***************************************************************************)
\* the used handles below h, i.e. the new position of h minus one
Rank(used, h) == Cardinality({x \in used : x < h})

\* a defragment that keeps every item where it is
ArenaDefragmentKeepsAll(a, used) ==
    [arena |-> a, map |-> [h \in 0..Len(a) |-> h]]

\* the compacted arena and the old-handle -> new-handle table (0 = unused)
ArenaDefragment(a, used) ==
    LET n == Cardinality(used)
        old(j) == CHOOSE h \in used : Rank(used, h) = j - 1
    IN [arena |-> [j \in 1..n |-> a[old(j)]],
        map |-> [h \in 0..Len(a) |-> IF h \in used THEN Rank(used, h) + 1 ELSE 0]]

AppendNodeIndex(node) ==
    CASE node.kind = "Leaf" ->
            (IF NibLen(node.nibble) > 0 THEN {node.nibble.data} ELSE {}) \cup {node.value}
      [] node.kind = "Branch" ->
            {node.keys[u].i : u \in {x \in 0..15 : node.keys[x].t = "Hash"}}
            \cup (IF node.value = NoVal THEN {} ELSE {node.value})
      [] node.kind = "Extension" ->
            {node.nibble.data} \cup (IF node.key.t = "Hash" THEN {node.key.i} ELSE {})
      [] OTHER -> {}

DefragUsed(d) ==
    (DOMAIN d.hash) \cup UNION {AppendNodeIndex(d.hash[k]) : k \in DOMAIN d.hash}

RemapIndex(map, k) == IF k.t = "Hash" THEN Hash(map[k.i]) ELSE k

RemapNode(map, node) ==
    CASE node.kind = "Leaf" ->
            [node EXCEPT !.nibble.data = map[@], !.value = map[@]]
      [] node.kind = "Branch" ->
            [node EXCEPT !.keys = [u \in 0..15 |-> RemapIndex(map, node.keys[u])],
                         !.value = IF @ = NoVal THEN NoVal ELSE map[@]]
      [] node.kind = "Extension" ->
            [node EXCEPT !.nibble.data = map[@], !.key = RemapIndex(map, @)]
      [] OTHER -> node

\* every handle read by Arena::defragment and by the rewrite is in range
DefragSafe(a, d) ==
    /\ \A h \in DefragUsed(d) : ValidHandle(a, h)
    /\ \A k \in DOMAIN d.hash :
          d.hash[k].kind \in {"Leaf", "Extension"} => d.hash[k].nibble.data \in 0..Len(a)

DbDefragment(a, d) ==
    LET r == ArenaDefragment(a, DefragUsed(d))
        src(k) == CHOOSE h \in DOMAIN d.hash : r.map[h] = k
    IN [arena |-> r.arena,
        db |-> [d EXCEPT !.hash = [k \in {r.map[h] : h \in DOMAIN d.hash}
                                     |-> RemapNode(r.map, d.hash[src(k)])]]]

TrieDefragment(a, d) == DbDefragment(a, d)

(***************************************************************************)
(* DFSIter                                                                 *)
(***************************************************************************)
BranchFrame(branch, n) == [kind |-> "Branch", node |-> branch, n |-> n]
ExtensionFrame(ext) == [kind |-> "Extension", node |-> ext, n |-> -1]

\* Arena::get: the bytes of item h; reading the sentinel 0 or a handle past
\* the end aborts
ArenaGet(a, h) == IF ValidHandle(a, h) THEN a[h] ELSE <<>>

\* data[lo..hi], which aborts unless lo <= hi <= len
SliceOk(data, lo, hi) == lo <= hi /\ hi <= Len(data)
Slice(data, lo, hi) == SubSeq(data, lo + 1, hi)

\* data1[i] & 0xF0 | data2[j] & 0x0F
MergeByte(data1, i, data2, j) == ((data1[i + 1] \div 16) * 16) + (data2[j + 1] % 16)

BuildKeyInit ==
    [start |-> TRUE, nibble |-> NibDefault, buffer |-> <<>>, count |-> 0,
     panic |-> FALSE]

\* one turn of the loop of build_key over the stack
BuildKeyStep(s, f, a) ==
    IF s.panic THEN s
    ELSE IF f.kind # "Extension" THEN [s EXCEPT !.count = @ + 1]
    ELSE LET e == f.node.nibble
             n == s.nibble
         IN IF s.start
            THEN IF s.count > e.start THEN [s EXCEPT !.panic = TRUE]
                 ELSE [s EXCEPT !.nibble = Nib(e.data, e.start - s.count, e.end),
                                !.start = FALSE, !.count = 0]
            ELSE IF n.data = e.data
            THEN IF n.end + s.count = e.start
                 THEN [s EXCEPT !.nibble = Nib(n.data, n.start, e.end), !.count = 0]
                 ELSE [s EXCEPT !.panic = TRUE]
            ELSE LET data1 == ArenaGet(a, n.data)
                     data2 == ArenaGet(a, e.data)
                     odd == n.end % 2 = 1 /\ (e.start - s.count) % 2 = 1
                     j == (e.start - s.count) \div 2
                     st == IF odd THEN e.start + 1 ELSE e.start
                 IN IF \/ ~ValidHandle(a, n.data) \/ ~ValidHandle(a, e.data)
                       \/ ~SliceOk(data1, n.start \div 2, n.end \div 2)
                       \/ (n.end % 2 = 1 /\ s.count > e.start)
                       \/ (odd /\ (n.end \div 2 >= Len(data1) \/ j >= Len(data2)))
                       \/ s.count > st
                    THEN [s EXCEPT !.panic = TRUE]
                    ELSE [s EXCEPT
                            !.buffer = @ \o Slice(data1, n.start \div 2, n.end \div 2)
                                         \o (IF odd
                                             THEN <<MergeByte(data1, n.end \div 2, data2, j)>>
                                             ELSE <<>>),
                            !.nibble = Nib(e.data, st - s.count, e.end),
                            !.count = 0]

RECURSIVE BuildKeyLoop(_, _, _, _)
BuildKeyLoop(s, stack, j, a) ==
    IF j > Len(stack) THEN s
    ELSE BuildKeyLoop(BuildKeyStep(s, stack[j], a), stack, j + 1, a)

KeyRes(key, panic) == [key |-> key, panic |-> panic]

\* build_key(Some(leaf))
BuildKeyLeaf(stack, leaf, a) ==
    LET s == BuildKeyLoop(BuildKeyInit, stack, 1, a)
        n == s.nibble
        l == leaf.nibble
        data == ArenaGet(a, l.data)
    IN IF s.panic \/ ~ValidHandle(a, l.data) THEN KeyRes(<<>>, TRUE)
       ELSE IF s.start THEN KeyRes(data, FALSE)
       ELSE IF l.data = n.data
       THEN IF s.buffer = <<>> THEN KeyRes(data, FALSE)
            ELSE IF SliceOk(data, n.start \div 2, n.end \div 2)
                 THEN KeyRes(s.buffer \o Slice(data, n.start \div 2, n.end \div 2), FALSE)
                 ELSE KeyRes(<<>>, TRUE)
       ELSE LET data1 == ArenaGet(a, n.data)
                odd == n.end % 2 = 1 /\ (l.start - s.count) % 2 = 1
                j == (l.start - s.count) \div 2
            IN IF \/ ~ValidHandle(a, n.data)
                  \/ ~SliceOk(data1, n.start \div 2, n.end \div 2)
                  \/ s.count > l.start
                  \/ (odd /\ (n.end \div 2 >= Len(data1) \/ j >= Len(data)))
                  \/ ~SliceOk(data, j, l.end \div 2)
               THEN KeyRes(<<>>, TRUE)
               ELSE KeyRes(s.buffer \o Slice(data1, n.start \div 2, n.end \div 2)
                               \o (IF odd
                                   THEN <<MergeByte(data1, n.end \div 2, data, j)>>
                                   ELSE <<>>)
                               \o Slice(data, j, l.end \div 2), FALSE)

\* build_key(None)
BuildKeyBranch(stack, a) ==
    LET s == BuildKeyLoop(BuildKeyInit, stack, 1, a)
        n == s.nibble
        data1 == ArenaGet(a, n.data)
    IN IF \/ s.panic \/ ~ValidHandle(a, n.data)
          \/ ~SliceOk(data1, n.start \div 2, n.end \div 2)
       THEN KeyRes(<<>>, TRUE)
       ELSE KeyRes(s.buffer \o Slice(data1, n.start \div 2, n.end \div 2), FALSE)

NextRes(some, key, value, stack, panic) ==
    [some |-> some, key |-> key, value |-> value, stack |-> stack, panic |-> panic]

LeafItem(stack, leaf, a) ==
    LET k == BuildKeyLeaf(stack, leaf, a)
    IN IF k.panic \/ ~ValidHandle(a, leaf.value)
       THEN NextRes(FALSE, <<>>, <<>>, stack, TRUE)
       ELSE NextRes(TRUE, k.key, ArenaGet(a, leaf.value), stack, FALSE)

BranchItem(stack, value, a) ==
    LET k == BuildKeyBranch(stack, a)
    IN IF k.panic \/ ~ValidHandle(a, value)
       THEN NextRes(FALSE, <<>>, <<>>, stack, TRUE)
       ELSE NextRes(TRUE, k.key, ArenaGet(a, value), stack, FALSE)

\* the search up the stack for the next branch key; position() counts from
\* the first slot that was not skipped, and its result is used as the slot
RECURSIVE SearchUp(_)
SearchUp(stack) ==
    IF stack = <<>> THEN [some |-> FALSE, key |-> None, stack |-> stack]
    ELSE LET top == stack[Len(stack)]
             rest == SubSeq(stack, 1, Len(stack) - 1)
             skip == IF top.n = -1 THEN 0 ELSE top.n + 1
             P == {u \in skip..15 : top.node.keys[u] # None}
         IN IF top.kind = "Branch" /\ P # {}
            THEN LET p == Min(P) - skip
                 IN [some |-> top.node.keys[p] # None, key |-> top.node.keys[p],
                     stack |-> Append(rest, BranchFrame(top.node, p))]
            ELSE SearchUp(rest)

RECURSIVE Descend(_, _, _, _)

\* a descent that aborts at an index that resolves to no node or to an Empty
\* node
DescendAborts(a, d, key, stack) ==
    LET node == DbGet(d, key)
    IN CASE node.kind = "Leaf" -> LeafItem(stack, node, a)
         [] node.kind = "Extension" ->
              Descend(a, d, node.key, Append(stack, ExtensionFrame(node)))
         [] node.kind = "Branch" ->
              LET st == Append(stack, BranchFrame(node, -1))
              IN IF node.value # NoVal THEN BranchItem(st, node.value, a)
                 ELSE LET up == SearchUp(st)
                      IN IF up.some THEN Descend(a, d, up.key, up.stack)
                         ELSE NextRes(FALSE, <<>>, <<>>, up.stack, FALSE)
         [] OTHER -> NextRes(FALSE, <<>>, <<>>, stack, TRUE)

Descend(a, d, key, stack) ==
    LET node == DbGet(d, key)
    IN CASE node.kind = "Leaf" -> LeafItem(stack, node, a)
         [] node.kind = "Extension" ->
              Descend(a, d, node.key, Append(stack, ExtensionFrame(node)))
         [] node.kind = "Branch" ->
              LET st == Append(stack, BranchFrame(node, -1))
              IN IF node.value # NoVal THEN BranchItem(st, node.value, a)
                 ELSE LET up == SearchUp(st)
                      IN IF up.some THEN Descend(a, d, up.key, up.stack)
                         ELSE NextRes(FALSE, <<>>, <<>>, up.stack, FALSE)
         [] OTHER -> NextRes(FALSE, <<>>, <<>>, stack, FALSE)

\* DFSIter::next
DFSNext(a, d, it) ==
    IF it.root THEN Descend(a, d, d.root, it.stack)
    ELSE LET up == SearchUp(it.stack)
         IN IF up.some THEN Descend(a, d, up.key, up.stack)
            ELSE NextRes(FALSE, <<>>, <<>>, up.stack, FALSE)

(***************************************************************************)
(* The state machine                                                       *)
(***************************************************************************)
GetAll == [k \in Keys |-> Get(k)]

Stored(k) == IF k \in DOMAIN kv THEN SomeRes(kv[k]) ELSE NoneRes

Op(name, key, val, ret) ==
    [op |-> name, key |-> key, val |-> val, ret |-> ret,
     before |-> GetAll, old |-> Stored(key), wasHash |-> db.root.t = "Hash"]

\* the trie exists and the process runs
Alive == ~panicked /\ last.op # "drop"

\* no iterator is alive
NoIter ==
    [active |-> FALSE, root |-> FALSE, stack |-> <<>>, calls |-> 0, done |-> FALSE,
     out |-> <<>>, late |-> <<>>, ret |-> NoneRes]

Init ==
    LET t == DbNew(ArenaNew)
    IN /\ arena = t.arena
       /\ db = t.db
       /\ kv = <<>>
       /\ last = [op |-> "new", key |-> <<>>, val |-> <<>>, ret |-> NoneRes,
                  before |-> [k \in Keys |-> NoneRes], old |-> NoneRes,
                  wasHash |-> TRUE]
       /\ nops = 0
       /\ hist = [inserts |-> 0, commits |-> 0, defrags |-> 0]
       /\ iter = NoIter
       /\ panicked = FALSE

\* the effect of an insert that returned r
InsertDone(r, k, v) ==
    /\ arena' = r.arena
    /\ db' = r.db
    /\ panicked' = r.panic
    /\ last' = Op("insert", k, v, r.ret)

Insert(k, v) ==
    /\ Alive
    /\ ~iter.active
    /\ nops < MaxOps
    /\ InsertDone(TrieInsert(arena, db, k, v), k, v)
    /\ kv' = MapPut(kv, k, v)
    /\ nops' = nops + 1
    /\ hist' = [hist EXCEPT !.inserts = @ + 1]
    /\ UNCHANGED iter

\* the effect of a commit that left r
CommitDone(r) == arena' = r.arena /\ db' = r.db

Commit ==
    /\ Alive
    /\ ~iter.active
    /\ nops < MaxOps
    /\ CommitDone(TrieCommit(arena, db))
    /\ last' = Op("commit", <<>>, <<>>, NoneRes)
    /\ nops' = nops + 1
    /\ hist' = [hist EXCEPT !.commits = @ + 1]
    /\ UNCHANGED <<kv, iter, panicked>>

\* defragment is called on a committed trie
Defragment ==
    /\ Alive
    /\ ~iter.active
    /\ nops < MaxOps
    /\ db.root.t = "Hash"
    /\ IF DefragSafe(arena, db)
       THEN CommitDone(TrieDefragment(arena, db)) /\ panicked' = FALSE
       ELSE panicked' = TRUE /\ UNCHANGED <<arena, db>>
    /\ last' = Op("defragment", <<>>, <<>>, NoneRes)
    /\ nops' = nops + 1
    /\ hist' = [hist EXCEPT !.defrags = @ + 1]
    /\ UNCHANGED <<kv, iter>>

\* the effect of a root() that returned r
RootDone(r) ==
    /\ arena' = r.arena
    /\ db' = r.db
    /\ panicked' = r.panic
    /\ last' = Op("root", <<>>, <<>>, r.ret)

Root ==
    /\ Alive
    /\ ~iter.active
    /\ nops < MaxOps
    /\ RootDone(TrieRoot(arena, db))
    /\ nops' = nops + 1
    /\ hist' = [hist EXCEPT !.commits = @ + 1]
    /\ UNCHANGED <<kv, iter>>

\* the trie goes out of scope; nothing runs on it afterwards
Drop ==
    /\ Alive
    /\ ~iter.active
    /\ nops < MaxOps
    /\ CommitDone(TrieDrop(arena, db))
    /\ last' = Op("drop", <<>>, <<>>, NoneRes)
    /\ nops' = nops + 1
    /\ hist' = [hist EXCEPT !.commits = @ + 1]
    /\ UNCHANGED <<kv, iter, panicked>>

\* Trie::iter on a committed trie; the iterator borrows the trie, so nothing
\* else runs until it is dropped
IterNew ==
    /\ Alive
    /\ ~iter.active
    /\ db.root.t = "Hash"
    /\ iter' = [NoIter EXCEPT !.active = TRUE, !.root = TRUE]
    /\ UNCHANGED <<arena, db, kv, last, nops, hist, panicked>>

\* the iterator after a call of next() that returned r; out collects the
\* pairs yielded before the first None, late the pairs yielded after it
IterAfter(it, r) ==
    [active |-> TRUE, root |-> FALSE, stack |-> r.stack,
     calls |-> it.calls + 1,
     done |-> it.done \/ (~r.some /\ ~r.panic),
     out |-> IF r.some /\ ~it.done THEN Append(it.out, <<r.key, r.value>>) ELSE it.out,
     late |-> IF r.some /\ it.done THEN Append(it.late, <<r.key, r.value>>) ELSE it.late,
     ret |-> IF r.some THEN SomeRes(<<r.key, r.value>>) ELSE NoneRes]

NextDone(r) == iter' = IterAfter(iter, r) /\ panicked' = r.panic

IterNext ==
    /\ Alive
    /\ iter.active
    /\ iter.calls < MaxNext
    /\ NextDone(DFSNext(arena, db, iter))
    /\ UNCHANGED <<arena, db, kv, last, nops, hist>>

IterDrop ==
    /\ Alive
    /\ iter.active
    /\ iter' = NoIter
    /\ UNCHANGED <<arena, db, kv, last, nops, hist, panicked>>

Next ==
    \/ \E k \in Keys, v \in Vals : Insert(k, v)
    \/ Commit
    \/ Defragment
    \/ Root
    \/ Drop
    \/ IterNew
    \/ IterNext
    \/ IterDrop

Spec == Init /\ [][Next]_vars

\* A second exploration of the same operations: two inserts of distinct keys
\* and a commit come first, then DeepOps operations of any kind
InitCommitted ==
    LET t == DbNew(ArenaNew)
    IN /\ arena = t.arena
       /\ db = t.db
       /\ kv = <<>>
       /\ last = [op |-> "new", key |-> <<>>, val |-> <<>>, ret |-> NoneRes,
                  before |-> [k \in Keys |-> NoneRes], old |-> NoneRes,
                  wasHash |-> TRUE]
       /\ nops = MaxOps - DeepOps
       /\ hist = [inserts |-> 0, commits |-> 0, defrags |-> 0]
       /\ iter = NoIter
       /\ panicked = FALSE

FirstInsert(k, v) ==
    /\ Alive
    /\ hist.commits = 0
    /\ hist.inserts < 2
    /\ k \notin DOMAIN kv
    /\ InsertDone(TrieInsert(arena, db, k, v), k, v)
    /\ kv' = MapPut(kv, k, v)
    /\ hist' = [hist EXCEPT !.inserts = @ + 1]
    /\ UNCHANGED <<nops, iter>>

FirstCommit ==
    /\ Alive
    /\ hist.commits = 0
    /\ hist.inserts = 2
    /\ CommitDone(TrieCommit(arena, db))
    /\ last' = Op("commit", <<>>, <<>>, NoneRes)
    /\ hist' = [hist EXCEPT !.commits = @ + 1]
    /\ UNCHANGED <<kv, nops, iter, panicked>>

NextCommitted ==
    \/ \E k \in Keys, v \in Vals : FirstInsert(k, v)
    \/ FirstCommit
    \/ hist.commits > 0 /\ \E k \in Keys, v \in Vals : Insert(k, v)
    \/ hist.commits > 0 /\ Commit
    \/ hist.commits > 0 /\ Defragment
    \/ hist.commits > 0 /\ Root
    \/ hist.commits > 0 /\ Drop
    \/ hist.commits > 0 /\ IterNew
    \/ hist.commits > 0 /\ IterNext
    \/ hist.commits > 0 /\ IterDrop

SpecCommitted == InitCommitted /\ [][NextCommitted]_vars

(***************************************************************************)
(* The reference: the canonical Merkle-Patricia trie of a key -> value map *)
(***************************************************************************)
KeyNibs(k) == [j \in 1..(2 * Len(k)) |-> HalfByte(k, j - 1)]

\* the length of the longest prefix shared by all keys of S
CommonLen(S) ==
    LET m == Min({2 * Len(k) : k \in S})
        ok(c) == \A k1, k2 \in S : SubSeq(KeyNibs(k1), 1, c) = SubSeq(KeyNibs(k2), 1, c)
    IN CHOOSE c \in 0..m : ok(c) /\ (c = m \/ ~ok(c + 1))

RefChild(enc) == IF ByteLen(enc) < H256Len THEN enc ELSE RlpBytes(Keccak(enc))

RECURSIVE RefNode(_, _, _)
RefNode(m, S, d) ==
    IF Cardinality(S) = 1
    THEN LET k == CHOOSE x \in S : TRUE
         IN RlpList(RlpBytes(HexPrefix(SubSeq(KeyNibs(k), d + 1, 2 * Len(k)), TRUE))
                    \o RlpBytes(m[k]))
    ELSE LET c == CommonLen(S)
         IN IF c > d
            THEN LET k == CHOOSE x \in S : TRUE
                 IN RlpList(RlpBytes(HexPrefix(SubSeq(KeyNibs(k), d + 1, c), FALSE))
                            \o RefChild(RefNode(m, S, c)))
            ELSE LET sub(u) == {k \in S : 2 * Len(k) > d /\ KeyNibs(k)[d + 1] = u}
                     slot(u) == IF sub(u) = {} THEN RlpEmpty
                                ELSE RefChild(RefNode(m, sub(u), d + 1))
                     here == {k \in S : 2 * Len(k) = d}
                 IN RlpList(slot(0) \o slot(1) \o slot(2) \o slot(3) \o slot(4) \o slot(5)
                            \o slot(6) \o slot(7) \o slot(8) \o slot(9) \o slot(10)
                            \o slot(11) \o slot(12) \o slot(13) \o slot(14) \o slot(15)
                            \o (IF here = {} THEN RlpEmpty
                                ELSE RlpBytes(m[CHOOSE k \in here : TRUE])))

RefRoot(m) ==
    IF DOMAIN m = {} THEN KECCAK_NULL_RLP ELSE Keccak(RefNode(m, DOMAIN m, 0))

\* the root of a fresh trie after inserting the keys of order with the values
\* of m and committing
RECURSIVE InsertAll(_, _, _, _, _)
InsertAll(a, d, order, m, j) ==
    IF j > Len(order) THEN [arena |-> a, db |-> d]
    ELSE LET r == TrieInsert(a, d, order[j], m[order[j]])
         IN InsertAll(r.arena, r.db, order, m, j + 1)

RootOfOrder(order, m) ==
    LET t == DbNew(ArenaNew)
        i == InsertAll(t.arena, t.db, order, m, 1)
        c == TrieCommit(i.arena, i.db)
    IN DbRoot(c.arena, c.db)

Orders(S) ==
    {o \in [1..Cardinality(S) -> S] : \A i, j \in 1..Cardinality(S) : i # j => o[i] # o[j]}

\* only inserts so far
InsertsOnly == hist.commits = 0 /\ hist.defrags = 0

\* inserts, then one commit
InsertsThenCommit == last.op = "commit" /\ hist.commits = 1 /\ hist.defrags = 0

(***************************************************************************)
(* C1: insert(k, v) followed at once by get(k) returns Some(v), in every   *)
(* state reached by inserts alone.                                         *)
(***************************************************************************)
RoundTrip == (last.op = "insert" /\ InsertsOnly) => Get(last.key) = SomeRes(last.val)

(***************************************************************************)
(* C2 (its clause on an insert made after a commit): after an insert into  *)
(* a committed trie, with only inserts and commits made, get(k) is the     *)
(* value of the most recent insert of k for every key, None if there is    *)
(* none.                                                                   *)
(***************************************************************************)
LastWriteWinsAfterCommit ==
    (last.op = "insert" /\ last.wasHash /\ hist.defrags = 0)
        => \A k \in Keys : Get(k) = Stored(k)

(***************************************************************************)
(* C3: defragment() on a committed trie leaves get(k) unchanged for every  *)
(* key k.                                                                  *)
(***************************************************************************)
DefragmentPreservesGet ==
    (last.op = "defragment" /\ ~panicked) => \A k \in Keys : Get(k) = last.before[k]

(***************************************************************************)
(* C4: on a committed trie built by inserts and commits, whose lookups     *)
(* agree with the inserted map, the pairs yielded by iter() until it       *)
(* returns None are exactly the stored pairs.                              *)
(***************************************************************************)
Yielded == {iter.out[j] : j \in 1..Len(iter.out)}

IterationComplete ==
    (iter.done /\ hist.defrags = 0 /\ \A k \in Keys : Get(k) = Stored(k))
        => Yielded = {<<k, kv[k]>> : k \in DOMAIN kv}

(***************************************************************************)
(* C5: inserting pairs with distinct keys into a fresh trie and committing *)
(* gives the same root digest whatever the order of the inserts.           *)
(***************************************************************************)
RootEquivalence ==
    (InsertsThenCommit /\ hist.inserts = Cardinality(DOMAIN kv))
        => \A o \in Orders(DOMAIN kv) : RootOfOrder(o, kv) = DbRoot(arena, db)

(***************************************************************************)
(* C6: after inserts into a fresh trie and a commit, the root digest is    *)
(* the root of the canonical Merkle-Patricia trie of the final map.        *)
(***************************************************************************)
RootMatchesReference ==
    InsertsThenCommit => DbRoot(arena, db) = SomeRes(RefRoot(kv))

(***************************************************************************)
(* C7: insert(k, v) leaves get(k') unchanged for every key k' other than k.*)
(***************************************************************************)
InsertFrame ==
    (last.op = "insert" /\ InsertsOnly)
        => \A k \in Keys \ {last.key} : Get(k) = last.before[k]

(***************************************************************************)
(* C8: insert(k, v) returns the value k had before (None if it had none),  *)
(* in every state reached by inserts.                                      *)
(***************************************************************************)
InsertReturnsPrevious ==
    (last.op = "insert" /\ InsertsOnly) => last.ret = last.old

(***************************************************************************)
(* C9: commit() leaves get(k) unchanged for every key k.                   *)
(***************************************************************************)
CommitPreservesGet ==
    last.op = "commit" => \A k \in Keys : Get(k) = last.before[k]

CommitPreservesGetWitness ==
    /\ last.op = "commit"
    /\ ~last.wasHash
    /\ Cardinality({k \in Keys : Get(k).some}) >= 2

(***************************************************************************)
(* C10: commit() on a trie whose root is Hash-tier changes neither the     *)
(* hash map, the memory vector, the root nor the arena.                    *)
(***************************************************************************)
CommitIdempotent ==
    [][(last'.op = "commit" /\ db.root.t = "Hash") => (arena' = arena /\ db' = db)]_vars

CommitIdempotentWitness ==
    /\ last.op = "commit"
    /\ last.wasHash
    /\ hist.commits >= 2
    /\ hist.inserts >= 1

(***************************************************************************)
(* C11: a fresh trie has root index Hash(1), the arena bytes there are the *)
(* digest of the empty encoding, get(k) is None for every key and root()   *)
(* returns that digest.                                                    *)
(***************************************************************************)
EmptyTrie ==
    (hist.inserts = 0 /\ hist.defrags = 0)
        => /\ db.root = Hash(1)
           /\ arena[1] = KECCAK_NULL_RLP
           /\ \A k \in Keys : Get(k) = NoneRes
           /\ last.op = "root" => last.ret = SomeRes(KECCAK_NULL_RLP)

EmptyTrieWitness == last.op = "root" /\ hist.inserts = 0 /\ nops = 1

(***************************************************************************)
(* C12: after inserts and commits, root() leaves the root index Hash-tier  *)
(* and the memory vector empty, and returns Some(bytes).                   *)
(***************************************************************************)
RootForcesCommit ==
    (last.op = "root" /\ hist.defrags = 0)
        => /\ db.root.t = "Hash"
           /\ db.memory = <<>>
           /\ last.ret.some

RootForcesCommitWitness == last.op = "root" /\ ~last.wasHash /\ hist.inserts >= 2

(***************************************************************************)
(* C13: the root of a committed non-empty trie is stored and returned as   *)
(* the 32-byte digest of the root node's encoding, also when the encoding  *)
(* is shorter than 32 bytes; with one stored key it is the reference root. *)
(***************************************************************************)
\* the encoding of a committed node
EncodingOf(node, a, d) ==
    LET e == CASE node.kind = "Leaf" -> LeafEncoded(node, a)
               [] node.kind = "Branch" -> BranchEncoded(node, a)
               [] node.kind = "Extension" -> ExtEncodedOrEmpty(node, a, d.empty)
               [] OTHER -> [arena |-> a, idx |-> d.empty]
    IN e.arena[e.idx]

RootEncoding == EncodingOf(DbGet(db, db.root), arena, db)

\* a commit or root() that found an uncommitted root, with no defragment so far
JustCommitted ==
    /\ last.op \in {"commit", "root", "drop"}
    /\ ~last.wasHash
    /\ hist.defrags = 0

RootNeverInlined ==
    JustCommitted
        => /\ db.root.t = "Hash"
           /\ arena[db.root.i] = Keccak(RootEncoding)
           /\ ByteLen(arena[db.root.i]) = H256Len
           /\ last.op = "root" => last.ret = SomeRes(Keccak(RootEncoding))
           /\ Cardinality(DOMAIN kv) = 1 => arena[db.root.i] = RefRoot(kv)

RootNeverInlinedWitness ==
    /\ JustCommitted
    /\ last.op = "root"
    /\ ByteLen(RootEncoding) < H256Len
    /\ Cardinality(DOMAIN kv) = 1

(***************************************************************************)
(* C14: on a committed trie built by inserts and commits, whose lookups    *)
(* agree with the inserted map, every pair (k, v) yielded by iter() is a   *)
(* stored pair: k was inserted and v is its value.                         *)
(***************************************************************************)
YieldedAll == Yielded \cup {iter.late[j] : j \in 1..Len(iter.late)}

IterationSound ==
    (iter.active /\ hist.defrags = 0 /\ \A k \in Keys : Get(k) = Stored(k))
        => \A p \in YieldedAll : p[1] \in DOMAIN kv /\ kv[p[1]] = p[2]

(***************************************************************************)
(* C15: on a committed trie, repeated calls of next() reach None after     *)
(* finitely many calls.  next() is a function of the trie and of the       *)
(* iterator's stack, so a call that yields a pair and leaves the stack as  *)
(* it found it is repeated for ever: termination needs every yielding call *)
(* to change the stack.                                                    *)
(***************************************************************************)
IteratorTerminates ==
    [][(/\ iter.active
        /\ ~iter.root
        /\ hist.defrags = 0
        /\ \A k \in Keys : Get(k) = Stored(k)
        /\ iter'.calls = iter.calls + 1
        /\ iter'.ret.some)
         => iter'.stack # iter.stack]_vars

(***************************************************************************)
(* C16: dropping a Trie commits it: after the drop the root index is       *)
(* Hash-tier and the memory vector holds no node, whatever inserts came    *)
(* before.                                                                 *)
(***************************************************************************)
DropCommits == last.op = "drop" => (db.root.t = "Hash" /\ db.memory = <<>>)

DropCommitsWitness == last.op = "drop" /\ ~last.wasHash /\ hist.inserts >= 2

(***************************************************************************)
(* C17: in every state reached by inserts and commits, the root index and  *)
(* every child index of a node reachable from the root resolve to a node   *)
(* held by the Db (a hash map entry or an in-range memory position).       *)
(***************************************************************************)
\* some index reachable from index does not resolve
RECURSIVE Dangling(_, _)
Dangling(d, index) ==
    LET node == DbGet(d, index)
    IN CASE node = NoNode -> TRUE
         [] node.kind = "Branch" ->
              \E u \in 0..15 : node.keys[u] # None /\ Dangling(d, node.keys[u])
         [] node.kind = "Extension" -> Dangling(d, node.key)
         [] OTHER -> FALSE

NoDanglingReferences ==
    (hist.defrags = 0 /\ ~panicked) => ~Dangling(db, db.root)

(***************************************************************************)
(* C18: get_mut on a Hash-tier index h held by the hash map removes entry  *)
(* h, appends the same node at the end of the memory vector, rewrites the  *)
(* caller's index to Memory(previous length), moves root to that index     *)
(* exactly when the index was the root, and changes nothing else; get_mut  *)
(* on a Memory index, or on a handle the map does not hold, changes        *)
(* nothing.  It is applied to every index of every reachable Db.           *)
(***************************************************************************)
PromotionOf(d, h, g) ==
    /\ g.found
    /\ g.node = d.hash[h]
    /\ g.key = Memory(Len(d.memory))
    /\ DOMAIN g.db.hash = (DOMAIN d.hash) \ {h}
    /\ \A x \in DOMAIN g.db.hash : g.db.hash[x] = d.hash[x]
    /\ g.db.memory = Append(d.memory, d.hash[h])
    /\ g.db.root = (IF d.root = Hash(h) THEN Memory(Len(d.memory)) ELSE d.root)
    /\ g.db.empty = d.empty

GetMutPromotion ==
    /\ \A h \in DOMAIN db.hash : PromotionOf(db, h, GetMut(db, Hash(h)))
    /\ \A h \in (0..(Len(arena) + 1)) \ DOMAIN db.hash :
          GetMut(db, Hash(h)).db = db /\ ~GetMut(db, Hash(h)).found
    /\ \A i \in 0..Len(db.memory) :
          /\ GetMut(db, Memory(i)).db = db
          /\ GetMut(db, Memory(i)).key = Memory(i)
          /\ GetMut(db, Memory(i)).found = (i < Len(db.memory))

GetMutPromotionWitness ==
    /\ last.op = "insert"
    /\ last.wasHash
    /\ hist.inserts >= 3
    /\ db.memory # <<>>
    /\ DOMAIN db.hash # {}

(***************************************************************************)
(* C19: after commit() the memory vector is empty, the root is Hash-tier   *)
(* and every node reachable from the root through child indices is held by *)
(* the hash map.                                                           *)
(***************************************************************************)
CommitLeavesHashTier ==
    (last.op = "commit" /\ hist.defrags = 0)
        => /\ db.memory = <<>>
           /\ db.root.t = "Hash"
           /\ ~Dangling(db, db.root)

(***************************************************************************)
(* C20: a defragment() that follows a commit() leaves the root index       *)
(* resolving to the root node in the hash map, and the bytes root() reads  *)
(* are the digest they were before the defragment.                         *)
(***************************************************************************)
DefragmentKeepsRoot ==
    [][(last.op = "commit" /\ last'.op = "defragment" /\ ~panicked')
          => /\ DbGet(db', db'.root) # NoNode
             /\ DbGet(db', db'.root).kind = DbGet(db, db.root).kind
             /\ ~DbRootPanics(arena', db')
             /\ DbRoot(arena', db') = DbRoot(arena, db)]_vars

(***************************************************************************)
(* C21: in every state reached by inserts (and commits), each Extension    *)
(* reachable from the root holds at least one half-byte; an Extension split *)
(* whose remainder is empty puts the Extension's child in the Branch slot. *)
(***************************************************************************)
\* the nodes reachable from index through child indices
RECURSIVE Reachable(_, _)
Reachable(d, index) ==
    LET node == DbGet(d, index)
    IN CASE node.kind = "Branch" ->
              {node} \cup UNION {Reachable(d, node.keys[u]) :
                                    u \in {w \in 0..15 : node.keys[w] # None}}
         [] node.kind = "Extension" -> {node} \cup Reachable(d, node.key)
         [] OTHER -> {node}

ExtensionsNonEmpty ==
    (hist.defrags = 0 /\ ~panicked)
        => \A n \in Reachable(db, db.root) :
              n.kind = "Extension" => NibLen(n.nibble) > 0

\* the Extension over [0x00] and [0x01] has just been split at its only
\* half-byte by [0x20]: its child Branch sits in slot 0 of the new root
ExtensionsNonEmptyWitness ==
    /\ last.op = "insert" /\ last.key = <<32>> /\ ~panicked
    /\ hist = [inserts |-> 3, commits |-> 0, defrags |-> 0]
    /\ DOMAIN kv = {<<0>>, <<1>>, <<32>>}
    /\ DbGet(db, db.root).kind = "Branch"
    /\ DbGet(db, db.root).keys[0] # None
    /\ DbGet(db, DbGet(db, db.root).keys[0]).kind = "Branch"

(***************************************************************************)
(* C22: in every state reached by inserts (and commits), each Branch       *)
(* reachable from the root has at least two occupied places among its 16   *)
(* child slots and its own value.                                          *)
(***************************************************************************)
Places(branch) ==
    Cardinality({u \in 0..15 : branch.keys[u] # None})
    + (IF branch.value = NoVal THEN 0 ELSE 1)

BranchesHaveTwoPlaces ==
    (hist.defrags = 0 /\ ~panicked)
        => \A n \in Reachable(db, db.root) : n.kind = "Branch" => Places(n) >= 2

\* a split has left a Branch whose two places are its own value and one slot
BranchesHaveTwoPlacesWitness ==
    /\ last.op = "insert" /\ ~panicked /\ hist.defrags = 0
    /\ \E n \in Reachable(db, db.root) :
          n.kind = "Branch" /\ n.value # NoVal /\ Places(n) = 2

(***************************************************************************)
(* C23: when an insert into a trie built by inserts diverges from a Leaf   *)
(* or an Extension after p common half-bytes, the node at that index       *)
(* becomes a Branch if p = 0 and an Extension of exactly the p common      *)
(* half-bytes over a new Branch if p > 0; the old node's remainder and the *)
(* new key's remainder occupy two different places of that Branch, also    *)
(* when the new path ends strictly inside the old Extension's nibble.      *)
(***************************************************************************)
\* the number of leading half-bytes two sequences share
SharedLen(x, y) ==
    LET m == IF Len(x) < Len(y) THEN Len(x) ELSE Len(y)
    IN CHOOSE c \in 0..m :
          /\ SubSeq(x, 1, c) = SubSeq(y, 1, c)
          /\ (c = m \/ x[c + 1] # y[c + 1])

NoSplit == [some |-> FALSE]

\* where the path ns leaves the trie below index: the Leaf or Extension it
\* diverges from, that node's half-bytes and the common-prefix offset
RECURSIVE SplitPoint(_, _, _, _)
SplitPoint(a, d, index, ns) ==
    LET node == DbGet(d, index)
    IN CASE node.kind = "Branch" ->
              IF ns = <<>> THEN NoSplit
              ELSE IF node.keys[Head(ns)] = None THEN NoSplit
              ELSE SplitPoint(a, d, node.keys[Head(ns)], Tail(ns))
         [] node.kind = "Extension" ->
              LET en == NibIter(node.nibble, a)
                  p == SharedLen(en, ns)
              IN IF p = Len(en)
                 THEN SplitPoint(a, d, node.key, SubSeq(ns, p + 1, Len(ns)))
                 ELSE [some |-> TRUE, index |-> index, p |-> p, old |-> en, new |-> ns]
         [] node.kind = "Leaf" ->
              LET ln == NibIter(node.nibble, a)
              IN IF ln = ns THEN NoSplit
                 ELSE [some |-> TRUE, index |-> index, p |-> SharedLen(ln, ns),
                       old |-> ln, new |-> ns]
         [] OTHER -> NoSplit

\* the place a remainder takes in the Branch: the slot of its first half-byte,
\* or the Branch's own value (16) when it is empty
PlaceOf(ns, p) == IF p >= Len(ns) THEN 16 ELSE ns[p + 1]

Occupied(branch, place) ==
    IF place = 16 THEN branch.value # NoVal ELSE branch.keys[place] # None

\* the Branch that replaced the node at index, under an Extension of the p
\* common half-bytes when p > 0
SplitBranch(a, d, sp) ==
    LET top == DbGet(d, sp.index)
    IN IF sp.p = 0 THEN top
       ELSE IF top.kind = "Extension" /\ NibIter(top.nibble, a) = SubSeq(sp.old, 1, sp.p)
            THEN DbGet(d, top.key)
            ELSE NoNode

SplitShapeAt(a, d, sp) ==
    LET branch == SplitBranch(a, d, sp)
    IN /\ branch.kind = "Branch"
       /\ PlaceOf(sp.old, sp.p) # PlaceOf(sp.new, sp.p)
       /\ Occupied(branch, PlaceOf(sp.old, sp.p))
       /\ Occupied(branch, PlaceOf(sp.new, sp.p))

SplitShape ==
    [][(hist'.commits = 0 /\ hist'.defrags = 0 /\ last'.op = "insert" /\ ~panicked'
        /\ SplitPoint(arena, db, db.root, KeyNibs(last'.key)).some)
          => SplitShapeAt(arena', db',
                          SplitPoint(arena, db, db.root, KeyNibs(last'.key)))]_vars

(***************************************************************************)
(* C24: commit is post-order: a Branch or Extension is encoded after its   *)
(* children are committed, so every stored Branch and Extension has only   *)
(* Hash-tier child indices and is stored under the encoding (or the digest *)
(* of the encoding) in which every child appears, none as an empty item.   *)
(***************************************************************************)
ChildIndices(node) ==
    CASE node.kind = "Branch" -> {node.keys[u] : u \in {w \in 0..15 : node.keys[w] # None}}
      [] node.kind = "Extension" -> {node.key}
      [] OTHER -> {}

ChildrenEncoded(node, a, d) ==
    CASE node.kind = "Branch" ->
            \A u \in 0..15 : node.keys[u] # None => BranchSlot(node, a, u) # RlpEmpty
      [] node.kind = "Extension" -> EncodingOf(node, a, d) # a[d.empty]
      [] OTHER -> TRUE

CommitPostOrder ==
    hist.defrags = 0
        => \A h \in DOMAIN db.hash :
              db.hash[h].kind \in {"Branch", "Extension"}
                 => /\ \A c \in ChildIndices(db.hash[h]) : c.t = "Hash"
                    /\ ChildrenEncoded(db.hash[h], arena, db)
                    /\ arena[h] \in {EncodingOf(db.hash[h], arena, db),
                                     Keccak(EncodingOf(db.hash[h], arena, db))}

\* a commit has just stored a Branch with children and an Extension
CommitPostOrderWitness ==
    /\ last.op = "commit" /\ ~last.wasHash /\ hist.defrags = 0
    /\ \E h \in DOMAIN db.hash :
          db.hash[h].kind = "Branch" /\ Cardinality(ChildIndices(db.hash[h])) >= 2
    /\ \E h \in DOMAIN db.hash : db.hash[h].kind = "Extension"

(***************************************************************************)
(* C25: a committed node whose encoding is shorter than 32 bytes is stored *)
(* under the handle of the raw encoding and no digest of it is computed; a *)
(* node whose encoding is 32 bytes or longer is stored under the handle of *)
(* the digest of the encoding.                                             *)
(***************************************************************************)
\* the handles under which the step has stored a node
NewlyStored == {h \in DOMAIN db'.hash \ DOMAIN db.hash :
              db'.hash[h].kind \in {"Leaf", "Branch", "Extension"}}

StoredEncoding(a, d, h) == EncodingOf(d.hash[h], a, d)

\* commit_node pushes a node's digest right after the node's encoding
DigestPushed(a, h) == h < Len(a) /\ a[h + 1] = Keccak(a[h])

\* the policy applied to the node stored under h
InlineOrDigest(a, d, h) ==
    IF ByteLen(StoredEncoding(a, d, h)) < H256Len
    THEN a[h] = StoredEncoding(a, d, h) /\ ~DigestPushed(a, h)
    ELSE a[h] = Keccak(StoredEncoding(a, d, h))

CommitStep == last'.op \in {"commit", "root", "drop"} /\ hist'.defrags = 0

\* the statement for every node a commit stores, the root included
InlinePolicyEveryNode ==
    [][CommitStep => \A h \in NewlyStored : InlineOrDigest(arena', db', h)]_vars

\* the statement for every node a commit stores but the root, which is kept
\* under its digest whatever the length of its encoding
InlinePolicy ==
    [][CommitStep
          => \A h \in NewlyStored :
                IF Hash(h) = db'.root
                THEN arena'[h] = Keccak(StoredEncoding(arena', db', h))
                ELSE InlineOrDigest(arena', db', h)]_vars

\* a commit has stored, below the root, a node with a short encoding and a
\* node with a long one
InlinePolicyWitness ==
    /\ last.op = "commit" /\ ~last.wasHash /\ hist = [inserts |-> 2, commits |-> 1, defrags |-> 0]
    /\ \E h \in DOMAIN db.hash :
          /\ db.hash[h].kind = "Leaf" /\ Hash(h) # db.root
          /\ ByteLen(StoredEncoding(arena, db, h)) < H256Len
    /\ \E h \in DOMAIN db.hash :
          /\ db.hash[h].kind = "Leaf" /\ Hash(h) # db.root
          /\ ByteLen(StoredEncoding(arena, db, h)) >= H256Len

(***************************************************************************)
(* C26: in a committed trie, the encoding of every Branch and Extension    *)
(* reachable from the root holds, for each child, the child's own raw      *)
(* encoding when that encoding is shorter than 32 bytes and the child's    *)
(* digest as a byte string otherwise; an absent Branch slot is the empty   *)
(* marker.                                                                 *)
(***************************************************************************)
\* what the node behind index promises to its parent
ChildContract(a, d, index) ==
    LET enc == EncodingOf(DbGet(d, index), a, d)
    IN IF ByteLen(enc) < H256Len THEN enc ELSE RlpBytes(Keccak(enc))

\* the item the parent's encoding holds for the child behind index
ItemInParent(a, index) == ChildItem(a[index.i])

ChildConsistent(a, d, index) ==
    /\ index.t = "Hash"
    /\ DbGet(d, index) # NoNode
    /\ ItemInParent(a, index) = ChildContract(a, d, index)

ParentConsistent(a, d, h) ==
    /\ a[h] \in {EncodingOf(d.hash[h], a, d), Keccak(EncodingOf(d.hash[h], a, d))}
    /\ \A c \in ChildIndices(d.hash[h]) : ChildConsistent(a, d, c)
    /\ d.hash[h].kind = "Branch"
          => \A u \in 0..15 :
                d.hash[h].keys[u] = None => BranchSlot(d.hash[h], a, u) = RlpEmpty

\* the handles of the Branches and Extensions reachable from the root
ReachableParents(d) ==
    {h \in DOMAIN d.hash :
        d.hash[h].kind \in {"Branch", "Extension"} /\ d.hash[h] \in Reachable(d, d.root)}

EncodingConsistent ==
    (db.root.t = "Hash" /\ hist.defrags = 0 /\ ~panicked)
        => \A h \in ReachableParents(db) : ParentConsistent(arena, db, h)

(***************************************************************************)
(* C27: on a committed trie, a call of next() that backtracks follows, in  *)
(* the Branch frame it stops at, the smallest occupied slot greater than   *)
(* the slot followed before, and the frames below are left alone; no key   *)
(* is yielded twice before the iterator returns None.                      *)
(***************************************************************************)
OccupiedAfter(branch, n) == {u \in (n + 1)..15 : branch.keys[u] # None}

\* frame j of the new stack is the old Branch frame j moved to its next slot
MovedToNextSlot(old, new, j) ==
    /\ SubSeq(new, 1, j - 1) = SubSeq(old, 1, j - 1)
    /\ old[j].kind = "Branch"
    /\ new[j].kind = "Branch"
    /\ new[j].node = old[j].node
    /\ OccupiedAfter(old[j].node, old[j].n) # {}
    /\ new[j].n = Min(OccupiedAfter(old[j].node, old[j].n))

NoKeyTwice(out) ==
    \A i, j \in 1..Len(out) : i # j => out[i][1] # out[j][1]

VisitingOrder ==
    [][(iter.active /\ ~iter.root /\ iter'.active /\ iter'.calls = iter.calls + 1
        /\ iter'.ret.some /\ hist.defrags = 0)
          => /\ \E j \in 1..Len(iter.stack) :
                   j <= Len(iter'.stack) /\ MovedToNextSlot(iter.stack, iter'.stack, j)
             /\ NoKeyTwice(iter'.out)]_vars

(***************************************************************************)
(* C28: the key next() yields is the packing, two half-bytes per byte, of  *)
(* the half-bytes met from the root to the node: the slot of every Branch  *)
(* frame and the whole nibble of every Extension frame, then the nibble of *)
(* the Leaf (nothing for a Branch's own value), whatever the stack shape.  *)
(***************************************************************************)
\* the half-bytes of the frames from j on
RECURSIVE FramePath(_, _, _)
FramePath(stack, j, a) ==
    IF j > Len(stack) THEN <<>>
    ELSE (IF stack[j].kind = "Extension" THEN NibIter(stack[j].node.nibble, a)
          ELSE IF stack[j].n = -1 THEN <<>>
          ELSE <<stack[j].n>>)
         \o FramePath(stack, j + 1, a)

\* the index next() followed last: the root, the chosen slot of the top
\* Branch frame or the child of the top Extension frame
Followed(stack, d) ==
    IF stack = <<>> THEN d.root
    ELSE LET top == stack[Len(stack)]
         IN IF top.kind = "Extension" THEN top.node.key
            ELSE IF top.n = -1 THEN None
            ELSE top.node.keys[top.n]

\* the half-bytes of the Leaf that ends the path, none for a Branch's own value
TerminalPath(stack, a, d) ==
    LET node == DbGet(d, Followed(stack, d))
    IN IF Followed(stack, d) # None /\ node.kind = "Leaf"
       THEN NibIter(node.nibble, a) ELSE <<>>

PathKey(stack, a, d) == Pack(FramePath(stack, 1, a) \o TerminalPath(stack, a, d))

KeyReconstruction ==
    [][(iter.active /\ iter'.active /\ iter'.calls = iter.calls + 1
        /\ iter'.ret.some /\ hist.defrags = 0)
          => iter'.ret.v[1] = PathKey(iter'.stack, arena, db)]_vars

(***************************************************************************)
(* C29: once next() has returned None, every later call of next() on the   *)
(* same iterator returns None.                                             *)
(***************************************************************************)
ExhaustionAbsorbing ==
    [][(iter.active /\ iter.done /\ iter'.active /\ iter'.calls = iter.calls + 1
        /\ ~panicked' /\ hist.defrags = 0)
          => ~iter'.ret.some]_vars

(***************************************************************************)
(* C30: a call of next() that reaches an index whose node is absent from   *)
(* the Db, or an Empty node, returns None without aborting, and the calls  *)
(* that follow yield no pair.                                              *)
(***************************************************************************)
\* the index followed last resolves to no node or to an Empty node
StoppedEarly(it, d) ==
    /\ ~it.root
    /\ Followed(it.stack, d) # None
    /\ DbGet(d, Followed(it.stack, d)).kind \in {"None", "Empty"}

\* the next n calls of next() all return None, none aborts
RECURSIVE YieldsNoMore(_, _, _, _)
YieldsNoMore(a, d, it, n) ==
    \/ n = 0
    \/ /\ ~DFSNext(a, d, it).some
       /\ ~DFSNext(a, d, it).panic
       /\ YieldsNoMore(a, d, IterAfter(it, DFSNext(a, d, it)), n - 1)

EarlyTermination ==
    (iter.active /\ StoppedEarly(iter, db) /\ hist.defrags = 0)
        => /\ ~iter.ret.some
           /\ ~panicked
           /\ YieldsNoMore(arena, db, iter, MaxNext)

\* next() has stopped at a child index of the root Branch that the hash map
\* does not hold
EarlyTerminationWitness ==
    /\ iter.active /\ StoppedEarly(iter, db) /\ hist.defrags = 0
    /\ iter.stack # <<>>
    /\ DbGet(db, Followed(iter.stack, db)) = NoNode
    /\ iter.calls >= 2

(***************************************************************************)
(* C31: Db::get and Db::get_mut return None for a Hash index the hash map  *)
(* does not hold and for a Memory position past the end of memory, and a   *)
(* get_mut that finds nothing leaves the hash map, the memory vector, the  *)
(* root and the caller's index as they were.  It is applied to every       *)
(* absent index of every reachable Db.                                     *)
(***************************************************************************)
\* indices that resolve to no node: arena handles (and 0, and one past the
\* last) outside the hash map, memory positions from the length on
AbsentIndices ==
    {Hash(h) : h \in (0..(Len(arena) + 1)) \ DOMAIN db.hash}
        \cup {Memory(i) : i \in Len(db.memory)..(Len(db.memory) + 1)}

NotFoundIsNone ==
    \A key \in AbsentIndices :
        /\ DbGet(db, key) = NoNode
        /\ ~GetMut(db, key).found
        /\ GetMut(db, key).node = NoNode
        /\ GetMut(db, key).db = db
        /\ GetMut(db, key).key = key

\* the insert walk has met an absent index: a child of the root Branch names
\* a handle that was promoted out of the hash map
NotFoundIsNoneWitness ==
    /\ db.memory # <<>>
    /\ DbGet(db, db.root).kind = "Branch"
    /\ \E u \in 0..15 :
         /\ DbGet(db, db.root).keys[u] \in AbsentIndices
         /\ DbGet(db, db.root).keys[u].t = "Hash"
    /\ last.op = "insert"

(***************************************************************************)
(* The Arena as the code stores it: one byte vector and the list of the    *)
(* offsets where the items end.  The trie model above keeps the sequence   *)
(* of items, Items(a); this section checks the byte-level operations on    *)
(* their own.                                                              *)
(***************************************************************************)
MaxItems == 3
MaxUsed == 3

ArenaBytes == { <<>>, <<7>>, <<7, 9>> }

\* the sequences over S of length at most n
SeqsUpTo(S, n) == UNION {[1..m -> S] : m \in 0..n}

ArenaNewRaw == [data |-> <<>>, pos |-> <<0>>]

\* capacities are not observable
ArenaWithCapacity(data_cap, item_cap) == [data |-> <<>>, pos |-> <<0>>]

ArenaLenRaw(a) == Len(a.pos) - 1

\* a push that hands out the number of items held before it
ArenaPushRawFromZero(a, bytes) ==
    LET data == a.data \o bytes
    IN [arena |-> [data |-> data, pos |-> Append(a.pos, Len(data))],
        idx |-> Len(a.pos) - 1]

\* push: pos[k] of the code is pos[k + 1] here; the handle is pos.len() - 1
\* taken after the offset was appended
ArenaPushRaw(a, bytes) ==
    LET data == a.data \o bytes
    IN [arena |-> [data |-> data, pos |-> Append(a.pos, Len(data))],
        idx |-> (Len(a.pos) + 1) - 1]

\* &arena[i] == data[pos[i - 1]..pos[i]]; a handle outside 1..len aborts
ArenaIndexPanics(a, i) == i \notin 1..ArenaLenRaw(a)
ArenaIndexRaw(a, i) == SubSeq(a.data, a.pos[i] + 1, a.pos[i + 1])

RemoveAt(s, j) == SubSeq(s, 1, j - 1) \o SubSeq(s, j + 1, Len(s))

RECURSIVE SortUnstable(_)
SortUnstable(s) ==
    IF s = <<>> THEN <<>>
    ELSE LET m == Min({s[j] : j \in DOMAIN s})
             j0 == Min({j \in DOMAIN s : s[j] = m})
         IN <<m>> \o SortUnstable(RemoveAt(s, j0))

\* Vec::dedup removes consecutive repeats
RECURSIVE Dedup(_)
Dedup(s) ==
    IF Len(s) <= 1 THEN s
    ELSE IF s[1] = s[2] THEN Dedup(Tail(s))
         ELSE <<s[1]>> \o Dedup(Tail(s))

\* for i in used { out[i] = new_arena.push(&self[i]) }
RECURSIVE DefragmentLoop(_, _, _, _, _)
DefragmentLoop(a, new, out, used, j) ==
    IF j > Len(used) THEN [arena |-> new, map |-> out]
    ELSE LET p == ArenaPushRaw(new, ArenaIndexRaw(a, used[j]))
         IN DefragmentLoop(a, p.arena, [out EXCEPT ![used[j]] = p.idx], used, j + 1)

\* a defragment that copies an item once for every mention in used
ArenaDefragmentRawNoDedup(a, used) ==
    DefragmentLoop(a, ArenaWithCapacity(Len(a.data), Len(a.pos)),
                   [h \in 0..(Len(a.pos) - 1) |-> 0], SortUnstable(used), 1)

\* out has pos.len() entries, indexed 0..len
ArenaDefragmentRaw(a, used) ==
    DefragmentLoop(a, ArenaWithCapacity(Len(a.data), Len(a.pos)),
                   [h \in 0..(Len(a.pos) - 1) |-> 0], Dedup(SortUnstable(used)), 1)

ArenaDefragmentPanics(a, used) ==
    \E j \in DOMAIN used : ArenaIndexPanics(a, used[j])

ArenaOp(name, arg, old, ret) == [op |-> name, arg |-> arg, old |-> old, ret |-> ret]

InitArena ==
    /\ arena = ArenaNewRaw
    /\ db = [hash |-> <<>>, memory |-> <<>>, root |-> None, empty |-> 0]
    /\ kv = <<>>
    /\ last = ArenaOp("new", <<>>, ArenaNewRaw, 0)
    /\ nops = 0
    /\ hist = [inserts |-> 0, commits |-> 0, defrags |-> 0]
    /\ iter = NoIter
    /\ panicked = FALSE

PushDone(p, bytes) ==
    /\ arena' = p.arena
    /\ last' = ArenaOp("push", bytes, arena, p.idx)

Push(bytes) ==
    /\ ~panicked
    /\ ArenaLenRaw(arena) < MaxItems
    /\ PushDone(ArenaPushRaw(arena, bytes), bytes)
    /\ UNCHANGED <<db, kv, nops, hist, iter, panicked>>

DefragmentDone(r, used) ==
    /\ arena' = r.arena
    /\ last' = ArenaOp("defragment", used, arena, r.map)

\* used may name any handle, valid or not, any number of times, in any order
DefragmentArena(used) ==
    /\ ~panicked
    /\ IF ArenaDefragmentPanics(arena, used)
       THEN /\ panicked' = TRUE
            /\ last' = ArenaOp("defragment", used, arena, <<>>)
            /\ UNCHANGED arena
       ELSE /\ panicked' = FALSE
            /\ DefragmentDone(ArenaDefragmentRaw(arena, used), used)
    /\ UNCHANGED <<db, kv, nops, hist, iter>>

NextArena ==
    \/ \E bytes \in ArenaBytes : Push(bytes)
    \/ \E used \in SeqsUpTo(0..MaxItems, MaxUsed) : DefragmentArena(used)

SpecArena == InitArena /\ [][NextArena]_vars

(***************************************************************************)
(* C32: Arena::defragment(used) returns a map such that, for every handle  *)
(* i in used, the new arena holds at map[i] the bytes the old arena held   *)
(* at i; the map is strictly increasing over the used handles; map[j] is 0 *)
(* for every unused j; and the new arena holds as many items as there are  *)
(* distinct used handles.                                                  *)
(***************************************************************************)
Mentioned(used) == {used[j] : j \in DOMAIN used}

DefragmentMapAt(old, new, used, map) ==
    /\ DOMAIN map = 0..ArenaLenRaw(old)
    /\ \A i \in Mentioned(used) :
         /\ map[i] \in 1..ArenaLenRaw(new)
         /\ ArenaIndexRaw(new, map[i]) = ArenaIndexRaw(old, i)
    /\ \A i \in Mentioned(used), j \in Mentioned(used) : i < j => map[i] < map[j]
    /\ \A j \in (0..ArenaLenRaw(old)) \ Mentioned(used) : map[j] = 0
    /\ ArenaLenRaw(new) = Cardinality(Mentioned(used))

DefragmentMap ==
    (last.op = "defragment" /\ ~panicked)
        => DefragmentMapAt(last.old, arena, last.arg, last.ret)

\* used names a handle twice, out of order, and leaves a handle out
DefragmentMapWitness ==
    /\ last.op = "defragment" /\ ~panicked
    /\ ArenaLenRaw(last.old) = 3
    /\ Len(last.arg) = 3
    /\ last.arg[1] > last.arg[2]
    /\ last.arg[1] = last.arg[3]
    /\ ArenaLenRaw(arena) = 2
    /\ ArenaIndexRaw(arena, 1) # ArenaIndexRaw(arena, 2)

(***************************************************************************)
(* C34: Arena::push is append-only: it returns the previous item count     *)
(* plus one (never 0), the arena then returns exactly the pushed bytes at  *)
(* that handle, the offsets list stays non-decreasing, and the bytes at    *)
(* every handle returned before are unchanged.                             *)
(***************************************************************************)
NonDecreasing(pos) == \A j \in 1..(Len(pos) - 1) : pos[j] <= pos[j + 1]

PushAppendOnlyAt(old, new, bytes, idx) ==
    /\ idx = ArenaLenRaw(old) + 1
    /\ idx # 0
    /\ ArenaLenRaw(new) = idx
    /\ ArenaIndexRaw(new, idx) = bytes
    /\ NonDecreasing(new.pos)
    /\ \A h \in 1..ArenaLenRaw(old) : ArenaIndexRaw(new, h) = ArenaIndexRaw(old, h)

PushAppendOnly ==
    last.op = "push" => PushAppendOnlyAt(last.old, arena, last.arg, last.ret)

\* a non-empty item pushed after an empty and a non-empty one
PushAppendOnlyWitness ==
    /\ last.op = "push"
    /\ last.ret = 3
    /\ last.arg = <<7, 9>>
    /\ ArenaIndexRaw(arena, 1) = <<>>
    /\ ArenaIndexRaw(arena, 2) = <<7>>

(***************************************************************************)
(* C33: after a commit, defragment() leaves the arena holding exactly the  *)
(* byte items reachable from the hash-tier nodes (their keys, nibble data  *)
(* handles and value handles); the item count never grows and it strictly  *)
(* shrinks whenever unreachable items exist.                               *)
(***************************************************************************)
\* the j-th smallest handle of used
NthUsed(used, j) == CHOOSE h \in used : Cardinality({x \in used : x < h}) = j - 1

\* a2, d2 is arena a compacted to the handles the hash-tier nodes of d name
CompactedTo(a, d, a2, d2) ==
    LET used == DefragUsed(d)
    IN /\ Len(a2) = Cardinality(used)
       /\ \A j \in 1..Len(a2) : a2[j] = a[NthUsed(used, j)]
       /\ DefragUsed(d2) = 1..Len(a2)
       /\ Len(a2) <= Len(a)
       /\ ((1..Len(a)) \ used # {}) => Len(a2) < Len(a)

DefragmentCompacts ==
    [][(last'.op = "defragment" /\ nops' = nops + 1 /\ ~panicked')
          => CompactedTo(arena, db, arena', db')]_vars

\* a committed trie of at least two keys was defragmented and the encodings
\* that commit pushed are gone
DefragmentCompactsWitness ==
    /\ last.op = "defragment" /\ ~panicked
    /\ hist.defrags = 1 /\ hist.inserts >= 2
    /\ \E h \in DOMAIN db.hash : db.hash[h].kind = "Branch"
    /\ DefragUsed(db) = 1..Len(arena)
    /\ \A h \in 1..Len(arena) : arena[h] # <<128>> /\ (Len(arena[h]) > 0 => arena[h][1] < 192)

(***************************************************************************)
(* C35: in every state reachable through insert, commit and root, if the   *)
(* memory vector holds at least one node then the root index is a Memory   *)
(* index, so the early return of commit on a Hash root never leaves        *)
(* uncommitted nodes behind.                                               *)
(***************************************************************************)
MemoryImpliesMemoryRoot ==
    (hist.defrags = 0 /\ ~panicked)
        => (db.memory # <<>> => db.root.t = "Memory")

\* an insert into a committed trie has promoted the root and a child of it
MemoryImpliesMemoryRootWitness ==
    /\ hist.defrags = 0 /\ ~panicked
    /\ last.op = "insert" /\ last.wasHash
    /\ hist.commits >= 1
    /\ Len(db.memory) >= 2
    /\ db.root.t = "Memory"

(***************************************************************************)
(* C36: in every state reachable by inserts, the child of every Extension  *)
(* is a Branch, never a Leaf, an Empty node or another Extension.          *)
(***************************************************************************)
\* every node the Db holds, in either tier
AllNodes(d) ==
    {d.hash[h] : h \in DOMAIN d.hash} \cup {d.memory[j] : j \in DOMAIN d.memory}

ExtensionChildIsBranch ==
    (InsertsOnly /\ ~panicked)
        => \A n \in AllNodes(db) :
              n.kind = "Extension" => DbGet(db, n.key).kind = "Branch"

\* an Extension on the way from the root after three inserts
ExtensionChildIsBranchWitness ==
    /\ InsertsOnly /\ ~panicked
    /\ hist.inserts >= 3
    /\ \E n \in Reachable(db, db.root) : n.kind = "Extension"

(***************************************************************************)
(* C37: every node a commit moves to the hash tier is stored under an      *)
(* arena handle allocated during that commit: no entry the hash map held   *)
(* before is overwritten, and every committed node gets an entry of its    *)
(* own, also when two nodes have byte-identical encodings or digests.      *)
(***************************************************************************)
\* the memory positions a commit visits from index
RECURSIVE MemReach(_, _)
MemReach(d, index) ==
    IF index.t # "Memory" \/ index.i >= Len(d.memory) THEN {}
    ELSE LET node == d.memory[index.i + 1]
         IN {index.i} \cup
            CASE node.kind = "Branch" ->
                    UNION {MemReach(d, node.keys[u]) : u \in 0..15}
              [] node.kind = "Extension" -> MemReach(d, node.key)
              [] OTHER -> {}

FreshHandlesAt(a, d, a2, d2) ==
    /\ \A h \in DOMAIN d.hash : h \in DOMAIN d2.hash /\ d2.hash[h] = d.hash[h]
    /\ \A h \in (DOMAIN d2.hash) \ (DOMAIN d.hash) : h \in (Len(a) + 1)..Len(a2)
    /\ Cardinality((DOMAIN d2.hash) \ (DOMAIN d.hash)) = Cardinality(MemReach(d, d.root))

FreshHandles ==
    [][(last'.op \in {"commit", "root", "drop"} /\ nops' = nops + 1 /\ ~panicked')
          => FreshHandlesAt(arena, db, arena', db')]_vars

\* a commit has stored two Leaves whose handles name equal bytes
FreshHandlesWitness ==
    /\ last.op = "commit" /\ ~last.wasHash /\ ~panicked
    /\ \E g \in DOMAIN db.hash, h \in DOMAIN db.hash :
          /\ g # h
          /\ db.hash[g].kind = "Leaf" /\ db.hash[h].kind = "Leaf"
          /\ arena[g] = arena[h]

(***************************************************************************)
(* nibbles.rs: a half-byte sequence as Even(bytes) or Left(half-byte,      *)
(* bytes), its iterator, split_n and the hex-prefix encoding.  The         *)
(* functions are applied to every Nibble over a small set of bytes.        *)
(***************************************************************************)
MaxNibbleBytes == 2
MaxSplit == 6

NibbleBytes == {0, 1, 35, 69, 255}
NibbleLefts == {0, 1, 15}

\* u8 operators
BitAnd(x, y) ==
    LET bit(k) == IF (x \div (2 ^ k)) % 2 = 1 /\ (y \div (2 ^ k)) % 2 = 1 THEN 2 ^ k ELSE 0
    IN bit(0) + bit(1) + bit(2) + bit(3) + bit(4) + bit(5) + bit(6) + bit(7)
BitOr(x, y) ==
    LET bit(k) == IF (x \div (2 ^ k)) % 2 = 1 \/ (y \div (2 ^ k)) % 2 = 1 THEN 2 ^ k ELSE 0
    IN bit(0) + bit(1) + bit(2) + bit(3) + bit(4) + bit(5) + bit(6) + bit(7)
ShiftRight(x, k) == x \div (2 ^ k)

Even(u) == [kind |-> "Even", l |-> 0, u |-> u]
Left(l, u) == [kind |-> "Left", l |-> l, u |-> u]

Nibbles ==
    {Even(u) : u \in SeqsUpTo(NibbleBytes, MaxNibbleBytes)}
        \cup {Left(l, u) : l \in NibbleLefts, u \in SeqsUpTo(NibbleBytes, MaxNibbleBytes)}

NibbleLen(n) == IF n.kind = "Even" THEN Len(n.u) * 2 ELSE 1 + Len(n.u) * 2

\* Nibble::iter
NibbleIter(n) ==
    [b |-> IF n.kind = "Even" THEN NoneRes ELSE SomeRes(n.l), iter |-> n.u]

\* NibbleIter::next: the pending half-byte, else the high half of the next
\* byte, whose low half becomes pending
NibbleIterNext(it) ==
    IF it.b.some THEN [item |-> it.b, it |-> [it EXCEPT !.b = NoneRes]]
    ELSE IF it.iter = <<>> THEN [item |-> NoneRes, it |-> it]
         ELSE [item |-> SomeRes(ShiftRight(Head(it.iter), 4)),
               it |-> [b |-> SomeRes(BitAnd(Head(it.iter), 15)), iter |-> Tail(it.iter)]]

\* the half-bytes next() yields until None
RECURSIVE Collect(_)
Collect(it) ==
    IF NibbleIterNext(it).item.some
    THEN <<NibbleIterNext(it).item.v>> \o Collect(NibbleIterNext(it).it)
    ELSE <<>>

\* &u[k..] and u[k]; u[k] aborts out of range
SliceFrom(u, k) == SubSeq(u, k + 1, Len(u))
AtPanics(u, k) == k >= Len(u)

SplitRes(some, v, panic) == [some |-> some, v |-> v, panic |-> panic]

\* Nibble::split_n; u[j] of the code is n.u[j + 1] here
SplitN(n, k) ==
    IF k = 0 THEN SplitRes(TRUE, n, FALSE)
    ELSE IF n.kind = "Even"
    THEN IF k >= 2 * Len(n.u) THEN SplitRes(FALSE, n, FALSE)
         ELSE IF k % 2 = 0 THEN SplitRes(TRUE, Even(SliceFrom(n.u, k \div 2)), FALSE)
         ELSE SplitRes(TRUE, Left(BitAnd(n.u[(k \div 2) + 1], 15),
                                  SliceFrom(n.u, (k \div 2) + 1)), FALSE)
    ELSE IF k >= 2 * Len(n.u) + 1 THEN SplitRes(FALSE, n, FALSE)
         ELSE IF k % 2 = 1 THEN SplitRes(TRUE, Even(SliceFrom(n.u, k \div 2)), FALSE)
         ELSE IF AtPanics(n.u, k \div 2) THEN SplitRes(FALSE, n, TRUE)
         ELSE SplitRes(TRUE, Left(BitAnd(n.u[(k \div 2) + 1], 15),
                                  SliceFrom(n.u, (k \div 2) + 1)), FALSE)

\* Nibble::encoded: the flag byte, then the bytes
Encoded(n, is_leaf) ==
    IF n.kind = "Even"
    THEN <<IF is_leaf THEN 32 ELSE 0>> \o n.u
    ELSE <<BitOr(n.l, IF is_leaf THEN 48 ELSE 16)>> \o n.u

\* Nibble::decode: the high half of the first byte selects the variant; the
\* half-byte of a Left is data[0] & 0xF0 in the code
Decode(data) ==
    IF data = <<>> THEN [flag |-> FALSE, nibble |-> Even(<<>>), panic |-> TRUE]
    ELSE CASE BitAnd(data[1], 240) = 0 ->
                [flag |-> FALSE, nibble |-> Even(Tail(data)), panic |-> FALSE]
           [] BitAnd(data[1], 240) = 16 ->
                [flag |-> FALSE, nibble |-> Left(BitAnd(data[1], 240), Tail(data)),
                 panic |-> FALSE]
           [] BitAnd(data[1], 240) = 32 ->
                [flag |-> TRUE, nibble |-> Even(Tail(data)), panic |-> FALSE]
           [] BitAnd(data[1], 240) = 48 ->
                [flag |-> TRUE, nibble |-> Left(BitAnd(data[1], 240), Tail(data)),
                 panic |-> FALSE]
           [] OTHER -> [flag |-> FALSE, nibble |-> Even(<<>>), panic |-> TRUE]

NibbleOp(name, nibble, arg, ret) ==
    [op |-> name, nibble |-> nibble, arg |-> arg, ret |-> ret]

\* a Nibble has been built; nothing was called on it yet
InitNibble ==
    /\ \E n \in Nibbles : last = NibbleOp("nibble", n, <<>>, <<>>)
    /\ arena = ArenaNew
    /\ db = [hash |-> <<>>, memory |-> <<>>, root |-> None, empty |-> 0]
    /\ kv = <<>>
    /\ nops = 0
    /\ hist = [inserts |-> 0, commits |-> 0, defrags |-> 0]
    /\ iter = NoIter
    /\ panicked = FALSE

EncodedCall(is_leaf) ==
    /\ last.op = "nibble"
    /\ last' = NibbleOp("encoded", last.nibble, is_leaf, Encoded(last.nibble, is_leaf))
    /\ UNCHANGED <<arena, db, kv, nops, hist, iter, panicked>>

DecodeDone(r) ==
    /\ last' = NibbleOp("decode", last.nibble, last.arg, <<r.flag, r.nibble>>)
    /\ panicked' = r.panic

\* decode is called on the bytes encoded returned
DecodeCall ==
    /\ last.op = "encoded"
    /\ DecodeDone(Decode(last.ret))
    /\ UNCHANGED <<arena, db, kv, nops, hist, iter>>

SplitNDone(r, k) ==
    /\ last' = NibbleOp("split_n", last.nibble, k, r)
    /\ panicked' = r.panic

SplitNCall(k) ==
    /\ last.op = "nibble"
    /\ SplitNDone(SplitN(last.nibble, k), k)
    /\ UNCHANGED <<arena, db, kv, nops, hist, iter>>

NextNibble ==
    \/ \E is_leaf \in BOOLEAN : EncodedCall(is_leaf)
    \/ DecodeCall
    \/ \E k \in 0..MaxSplit : SplitNCall(k)

SpecNibble == InitNibble /\ [][NextNibble]_vars

(***************************************************************************)
(* C38: hex-prefix round trip: decode(encoded(n, is_leaf)) is (is_leaf, n) *)
(* for every half-byte sequence n, of even or odd length, the empty one    *)
(* included, and for both values of the flag.                              *)
(***************************************************************************)
HexPrefixRoundTrip ==
    last.op = "decode" => (~panicked /\ last.ret = <<last.arg, last.nibble>>)

(***************************************************************************)
(* C39: for a Nibble of length L, Even or Left, split_n(n) with 0 <= n < L *)
(* returns the last L - n half-bytes in order, and split_n(n) with n >= L  *)
(* and n > 0 returns None.                                                 *)
(***************************************************************************)
HalfBytes(n) == Collect(NibbleIter(n))

SplitNAt(n, k, r) ==
    /\ k < NibbleLen(n) =>
          /\ ~r.panic
          /\ r.some
          /\ HalfBytes(r.v) = SubSeq(HalfBytes(n), k + 1, NibbleLen(n))
    /\ (k >= NibbleLen(n) /\ k > 0) => (~r.panic /\ ~r.some)

SplitNSuffix ==
    last.op = "split_n" => SplitNAt(last.nibble, last.arg, last.ret)

(***************************************************************************)
(* storage/merkle.rs: MerkleStorage, the two-tier store whose commit works *)
(* through a queue of (position, node) pairs.  Nodes are put into it with  *)
(* get_mut, push_* and insert_node; commit runs one queue iteration per    *)
(* step.                                                                   *)
(***************************************************************************)
MaxMem == 2

\* commit is followed for MaxSteps iterations of its loop
MaxSteps == (MaxMem + 1) * (MaxMem + 1) + 1

\* the child indices the nodes put into the store may hold: the handle of
\* the empty root, and memory positions, held or not
MerkleChildren == {Hash(1)} \cup {Memory(j) : j \in 1..MaxMem}

MerkleNodes ==
    {LeafNode(NibDefault, 1)}
        \cup {ExtNode(NibDefault, c) : c \in MerkleChildren}
        \cup {BranchNode([u \in 0..15 |-> IF u = 0 THEN c0 ELSE IF u = 1 THEN c1 ELSE None],
                         NoVal) : c0 \in MerkleChildren \cup {None},
                                  c1 \in (MerkleChildren \ {Hash(1)}) \cup {None}}

MerkleNew(a) ==
    LET p == ArenaPush(a, KECCAK_NULL_RLP)
    IN [arena |-> p.arena,
        db |-> [hash |-> MapPut(<<>>, p.idx, EmptyNode), memory |-> <<>>,
                root |-> Hash(p.idx)]]

MerkleGetMut(d, key) ==
    IF key.t = "Hash"
    THEN IF key.i \in DOMAIN d.hash
         THEN LET len == Len(d.memory)
              IN [found |-> TRUE, key |-> Memory(len),
                  db |-> [hash |-> MapDel(d.hash, key.i),
                          memory |-> Append(d.memory, d.hash[key.i]),
                          root |-> IF key = d.root THEN Memory(len) ELSE d.root]]
         ELSE [found |-> FALSE, key |-> key, db |-> d]
    ELSE [found |-> key.i < Len(d.memory), key |-> key, db |-> d]

MerkleInsertNode(d, key, value) ==
    IF key.t = "Hash"
    THEN [d EXCEPT !.hash = MapPut(d.hash, key.i, value)]
    ELSE IF key.i < Len(d.memory)
         THEN [d EXCEPT !.memory[key.i + 1] = value]
         ELSE d

\* push_leaf, push_branch, push_extension
MerklePush(d, node) == [d EXCEPT !.memory = Append(d.memory, node)]

\* the child index in slot u of a node; an Extension has its child in slot 0
MerkleChildAt(node, u) ==
    CASE node.kind = "Branch" -> node.keys[u]
      [] node.kind = "Extension" -> IF u = 0 THEN node.key ELSE None
      [] OTHER -> None

HasMemoryChild(node) == \E u \in 0..15 : MerkleChildAt(node, u).t = "Memory"

\* Node::rlp_encoded: None while a child is in memory, else the encoding,
\* which holds the digest of every child
RlpEncoded(node, a) ==
    IF HasMemoryChild(node) THEN NoneRes
    ELSE CASE node.kind = "Leaf" ->
                SomeRes(RlpList(RlpBytes(<<32>>) \o RlpBytes(<<node.value>>)))
           [] node.kind = "Extension" ->
                SomeRes(RlpList(RlpBytes(<<0>>) \o RlpBytes(a[node.key.i])))
           [] node.kind = "Branch" ->
                SomeRes(RlpList(BranchSlots(node, a) \o RlpEmpty))
           [] OTHER -> SomeRes(RlpEmpty)

\* memory.drain(..).enumerate(): the front of the queue is position 0
DrainQueue(memory) == [j \in 1..Len(memory) |-> [i |-> j - 1, node |-> memory[j]]]

\* the update of one queued node when node i went to handle h
RewriteNode(node, i, h) ==
    CASE node.kind = "Extension" ->
            IF node.key = Memory(i) THEN [node EXCEPT !.key = Hash(h)] ELSE node
      [] node.kind = "Branch" ->
            [node EXCEPT !.keys = [u \in 0..15 |-> IF node.keys[u] = Memory(i)
                                                   THEN Hash(h) ELSE node.keys[u]]]
      [] OTHER -> node

\* an iteration that leaves the queued nodes as they are
MerkleCommitIterNoRewrite(a, d, queue) ==
    LET item == queue[Len(queue)]
        rest == SubSeq(queue, 1, Len(queue) - 1)
        enc == RlpEncoded(item.node, a)
    IN IF ~enc.some
       THEN [arena |-> a, db |-> d, queue |-> <<item>> \o rest, moved |-> FALSE]
       ELSE LET p == ArenaPush(a, Keccak(enc.v))
            IN [arena |-> p.arena,
                db |-> [d EXCEPT !.hash = MapPut(d.hash, p.idx, item.node),
                                 !.root = IF d.root = Memory(item.i)
                                          THEN Hash(p.idx) ELSE d.root],
                queue |-> rest,
                moved |-> TRUE]

\* one iteration of `while let Some((i, node)) = queue.pop_back()`
MerkleCommitIter(a, d, queue) ==
    LET item == queue[Len(queue)]
        rest == SubSeq(queue, 1, Len(queue) - 1)
        enc == RlpEncoded(item.node, a)
    IN IF ~enc.some
       THEN [arena |-> a, db |-> d, queue |-> <<item>> \o rest, moved |-> FALSE]
       ELSE LET p == ArenaPush(a, Keccak(enc.v))
            IN [arena |-> p.arena,
                db |-> [d EXCEPT !.hash = MapPut(d.hash, p.idx, item.node),
                                 !.root = IF d.root = Memory(item.i)
                                          THEN Hash(p.idx) ELSE d.root],
                queue |-> [k \in 1..Len(rest) |->
                              [rest[k] EXCEPT !.node = RewriteNode(@, item.i, p.idx)]],
                moved |-> TRUE]

\* the value commit returns
MerkleCommitReturn(a, d) ==
    IF d.root.t = "Hash" THEN SomeRes(ArenaGet(a, d.root.i)) ELSE NoneRes

\* the memory nodes form a tree under the root: the root is in memory, every
\* Memory child index names a held position, every position but the root's
\* is named by exactly one slot, and every position is found from the root
MemoryRefs(d) ==
    {r \in (0..(Len(d.memory) - 1)) \X (0..15) :
        MerkleChildAt(d.memory[r[1] + 1], r[2]).t = "Memory"}

RefTarget(d, r) == MerkleChildAt(d.memory[r[1] + 1], r[2]).i

RECURSIVE Below(_, _, _)
Below(d, S, n) ==
    IF n = 0 THEN S
    ELSE Below(d, S \cup {RefTarget(d, r) : r \in {x \in MemoryRefs(d) : x[1] \in S}}, n - 1)

MemoryIsTree(d) ==
    /\ d.root.t = "Memory"
    /\ d.root.i < Len(d.memory)
    /\ \A r \in MemoryRefs(d) : RefTarget(d, r) < Len(d.memory) /\ RefTarget(d, r) # d.root.i
    /\ \A j \in (0..(Len(d.memory) - 1)) \ {d.root.i} :
          Cardinality({r \in MemoryRefs(d) : RefTarget(d, r) = j}) = 1
    /\ Below(d, {d.root.i}, Len(d.memory)) = 0..(Len(d.memory) - 1)

\* the call in progress: for commit, its queue, the number of nodes drained,
\* whether they formed a tree, and the iterations made so far
MerkleOp(name, pc, queue, tree, ret) ==
    [op |-> name, pc |-> pc, queue |-> queue, drained |-> Len(queue), tree |-> tree,
     steps |-> 0, ret |-> ret]

InitMerkle ==
    LET t == MerkleNew(ArenaNew)
    IN /\ arena = t.arena
       /\ db = t.db
       /\ kv = <<>>
       /\ last = MerkleOp("new", "idle", <<>>, FALSE, NoneRes)
       /\ nops = 0
       /\ hist = [inserts |-> 0, commits |-> 0, defrags |-> 0]
       /\ iter = NoIter
       /\ panicked = FALSE

\* the store is being filled; no commit has started
Filling == last.pc = "idle"

\* get_mut on the root index moves the root to memory
MerkleGetMutRoot ==
    /\ Filling
    /\ db.root.t = "Hash"
    /\ db' = MerkleGetMut(db, db.root).db
    /\ last' = MerkleOp("get_mut", "idle", <<>>, FALSE, NoneRes)
    /\ UNCHANGED <<arena, kv, nops, hist, iter, panicked>>

MerklePushNode(node) ==
    /\ Filling
    /\ db.root.t = "Memory"
    /\ Len(db.memory) <= MaxMem
    /\ db' = MerklePush(db, node)
    /\ last' = MerkleOp("push", "idle", <<>>, FALSE, NoneRes)
    /\ UNCHANGED <<arena, kv, nops, hist, iter, panicked>>

\* insert_node at the root index replaces the root node
MerkleReplaceRoot(node) ==
    /\ Filling
    /\ db.root.t = "Memory"
    /\ DbGet(db, db.root) = EmptyNode
    /\ db' = MerkleInsertNode(db, db.root, node)
    /\ last' = MerkleOp("insert_node", "idle", <<>>, FALSE, NoneRes)
    /\ UNCHANGED <<arena, kv, nops, hist, iter, panicked>>

\* commit drains the memory into the queue
MerkleCommitStart ==
    /\ Filling
    /\ db' = [db EXCEPT !.memory = <<>>]
    /\ last' = MerkleOp("commit", "loop", DrainQueue(db.memory), MemoryIsTree(db), NoneRes)
    /\ UNCHANGED <<arena, kv, nops, hist, iter, panicked>>

MerkleCommitIterDone(r) ==
    /\ arena' = r.arena
    /\ db' = r.db
    /\ last' = [last EXCEPT !.queue = r.queue, !.steps = @ + 1]

MerkleCommitStep ==
    /\ last.pc = "loop"
    /\ last.queue # <<>>
    /\ last.steps < MaxSteps
    /\ MerkleCommitIterDone(MerkleCommitIter(arena, db, last.queue))
    /\ UNCHANGED <<kv, nops, hist, iter, panicked>>

MerkleCommitEnd ==
    /\ last.pc = "loop"
    /\ last.queue = <<>>
    /\ last' = [last EXCEPT !.pc = "done", !.ret = MerkleCommitReturn(arena, db)]
    /\ UNCHANGED <<arena, db, kv, nops, hist, iter, panicked>>

NextMerkle ==
    \/ MerkleGetMutRoot
    \/ \E node \in MerkleNodes : MerklePushNode(node)
    \/ \E node \in MerkleNodes : MerkleReplaceRoot(node)
    \/ MerkleCommitStart
    \/ MerkleCommitStep
    \/ MerkleCommitEnd

SpecMerkle == InitMerkle /\ [][NextMerkle]_vars

(***************************************************************************)
(* C40: the worklist commit of MerkleStorage: when the memory nodes form a *)
(* tree under the root the queue loop terminates (n nodes are done within  *)
(* n (n + 1) / 2 iterations, fewer than commit is followed for, and the    *)
(* loop then ends); a node is hashed and                                   *)
(* moved to the hash tier only once all its children are Hash indices and  *)
(* is put back on the queue otherwise; when node i is committed every      *)
(* Memory(i) held by a queued node is rewritten to the new Hash index; at  *)
(* the end the memory vector is empty and the root is a Hash index.        *)
(***************************************************************************)
\* an iteration popped item from the back of queue
IterationOf(item, rest) ==
    IF HasMemoryChild(item.node)
    THEN /\ last'.queue = <<item>> \o rest
         /\ db' = db
         /\ arena' = arena
    ELSE LET h == Len(arena) + 1
         IN /\ Len(arena') = h
            /\ DOMAIN db'.hash = (DOMAIN db.hash) \cup {h}
            /\ db'.hash[h] = item.node
            /\ \A g \in DOMAIN db.hash : db'.hash[g] = db.hash[g]
            /\ Len(last'.queue) = Len(rest)
            /\ \A k \in 1..Len(rest) :
                  /\ last'.queue[k].i = rest[k].i
                  /\ \A u \in 0..15 :
                        MerkleChildAt(last'.queue[k].node, u) =
                            IF MerkleChildAt(rest[k].node, u) = Memory(item.i)
                            THEN Hash(h)
                            ELSE MerkleChildAt(rest[k].node, u)
            /\ db'.root = IF db.root = Memory(item.i) THEN Hash(h) ELSE db.root

WorklistStep ==
    (last.pc = "loop" /\ last'.pc = "loop")
        => IterationOf(last.queue[Len(last.queue)],
                       SubSeq(last.queue, 1, Len(last.queue) - 1))

WorklistEnd ==
    (last.pc = "done" /\ last.tree)
        => (db.memory = <<>> /\ db.root.t = "Hash" /\ last.ret.some)

\* on a tree of n nodes, a queue of q nodes is left to at most q iterations
\* later, so that the loop has made at most n (n + 1) / 2 iterations when the
\* queue is empty; a queue that is not empty holds a node that can be encoded
WorklistTerminates ==
    (last.pc = "loop" /\ last.tree)
        => /\ 2 * last.steps + Len(last.queue) * (Len(last.queue) + 1)
                 <= last.drained * (last.drained + 1)
                    + (IF last.queue = <<>> THEN 0 ELSE 2 * (Len(last.queue) - 1))
           /\ last.drained * (last.drained + 1) < 2 * MaxSteps
           /\ last.queue # <<>> => \E k \in 1..Len(last.queue) :
                                      ~HasMemoryChild(last.queue[k].node)

WorklistCommit ==
    /\ [][WorklistStep]_vars
    /\ []WorklistEnd
    /\ []WorklistTerminates

\* the commit of a tree of three nodes, an Extension below the root among
\* them, has ended after putting a node back on the queue
WorklistCommitWitness ==
    /\ last.pc = "done" /\ last.tree
    /\ last.steps > last.drained
    /\ last.drained = 3
    /\ Cardinality(DOMAIN db.hash) = 3
    /\ \E h \in DOMAIN db.hash : db.hash[h].kind = "Extension" /\ db.root # Hash(h)

====
